---- MODULE Spec2Model ----
(***************************************************************************)
(* State-machine model of the MPIC coordinator of open-mpic-core:          *)
(* MpicRequestValidator, MpicCoordinator.coordinate_mpic with its remote    *)
(* fan-out, quorum evaluation and retry loop, and MpicResponseBuilder.      *)
(***************************************************************************)
EXTENDS Integers, Sequences, FiniteSets, TLC

\* ------------------------------------------------------------------------
\* Bounds of the model
\* ------------------------------------------------------------------------
\* largest perspective_count / quorum_count a request of the coordinator runs asks for
MaxCountReq == 3
\* largest max_attempts a request asks for
MaxAttemptsReq == 3
\* largest number of known perspectives handed to the validator on its own
MaxKnown == 7
\* largest count value handed to the validator on its own
MaxCountVal == 8
\* size of the seed space the digest is reduced to
SeedSpace == 7
\* largest perspective list handed to cohort construction on its own
MaxPerspectives == 5
\* largest cohort_size handed to cohort construction on its own
MaxCohortSize == 6
\* largest CAA record set a name answers with
MaxRecords == 2
\* longest list of values handed to do_caa_values_permit_issuance on its own
MaxValues == 2

\* ------------------------------------------------------------------------
\* Python values: None, an int, or a value that is no int (a str)
\* ------------------------------------------------------------------------
None == [t |-> "none", v |-> 0]
IntV(n) == [t |-> "int", v |-> n]
StrV == [t |-> "str", v |-> 0]

IsNone(x) == x.t = "none"
\* isinstance(x, int)
IsInt(x) == x.t = "int"

SeqToSet(s) == {s[i] : i \in 1..Len(s)}

\* ------------------------------------------------------------------------
\* MpicRequestValidator
\* ------------------------------------------------------------------------
\* orchestration_parameters is None
NoOrchestration ==
    [present |-> FALSE, perspective_count |-> None, quorum_count |-> None, max_attempts |-> None]

Orchestration(pcv, qcv, mav) ==
    [present |-> TRUE, perspective_count |-> pcv, quorum_count |-> qcv, max_attempts |-> mav]

Issue(type, value) == [issue_type |-> type, value |-> value]

is_requested_perspective_count_valid_from_one(requested_perspective_count, target_perspectives_) ==
    /\ IsInt(requested_perspective_count)
    /\ 1 <= requested_perspective_count.v
    /\ requested_perspective_count.v <= Len(target_perspectives_)

is_requested_perspective_count_valid(requested_perspective_count, target_perspectives_) ==
    /\ IsInt(requested_perspective_count)
    /\ 2 <= requested_perspective_count.v
    /\ requested_perspective_count.v <= Len(target_perspectives_)

\* the issues validate_quorum_count appends
validate_quorum_count_one_below(requested_perspective_count, quorum_count_) ==
    LET quorum_is_valid ==
            /\ IsInt(quorum_count_)
            /\ requested_perspective_count - 1 <= quorum_count_.v
            /\ quorum_count_.v <= requested_perspective_count
    IN  IF quorum_is_valid THEN <<>> ELSE <<Issue("INVALID_QUORUM_COUNT", quorum_count_)>>

validate_quorum_count(requested_perspective_count, quorum_count_) ==
    LET quorum_is_valid ==
            /\ IsInt(quorum_count_)
            /\ \/ /\ requested_perspective_count - 1 <= quorum_count_.v
                  /\ quorum_count_.v <= requested_perspective_count
                  /\ requested_perspective_count <= 5
               \/ /\ 4 <= requested_perspective_count - 2
                  /\ requested_perspective_count - 2 <= quorum_count_.v
                  /\ quorum_count_.v <= requested_perspective_count
    IN  IF quorum_is_valid THEN <<>> ELSE <<Issue("INVALID_QUORUM_COUNT", quorum_count_)>>

\* the list of issues is_request_valid returns (its boolean is: the list is empty)
request_validation_issues(request, known_perspectives) ==
    LET op == request.orchestration_parameters
        requested_perspective_count == op.perspective_count
        count_given == op.present /\ ~IsNone(requested_perspective_count)
        should_validate_quorum_count ==
            count_given /\ is_requested_perspective_count_valid(requested_perspective_count, known_perspectives)
        count_issues ==
            IF count_given /\ ~should_validate_quorum_count
            THEN <<Issue("INVALID_PERSPECTIVE_COUNT", requested_perspective_count)>>
            ELSE <<>>
        quorum_issues ==
            IF should_validate_quorum_count /\ ~IsNone(op.quorum_count)
            THEN validate_quorum_count(requested_perspective_count.v, op.quorum_count)
            ELSE <<>>
    IN  count_issues \o quorum_issues

\* is_request_valid: the pair (no issue found, the issues)
is_request_valid_checking_count_only(request, known_perspectives) ==
    LET issues == request_validation_issues(request, known_perspectives)
    IN  [is_request_valid |-> \A i \in 1..Len(issues) : issues[i].issue_type # "INVALID_PERSPECTIVE_COUNT",
         validation_issues |-> issues]

is_request_valid(request, known_perspectives) ==
    LET issues == request_validation_issues(request, known_perspectives)
    IN  [is_request_valid |-> Len(issues) = 0, validation_issues |-> issues]

\* ------------------------------------------------------------------------
\* Cohort construction
\* ------------------------------------------------------------------------
\* A string is the sequence of its character codes.
\* str.lower() on the letters A-Z
Lower(s) == [i \in 1..Len(s) |-> IF 65 <= s[i] /\ s[i] <= 90 THEN s[i] + 32 ELSE s[i]]

\* str.encode('ASCII') succeeds
IsAscii(s) == \A i \in 1..Len(s) : s[i] < 128

\* the digest of a byte string, reduced to the seed space
RECURSIVE Digest(_, _)
Digest(bytes, h) ==
    IF bytes = <<>> THEN h ELSE Digest(Tail(bytes), (h * 31 + Head(bytes)) % SeedSpace)

\* random_seed of create_cohorts_of_randomly_selected_perspectives
RandomSeedCaseSensitive(hash_secret_, domain_or_ip_target) ==
    Digest(hash_secret_ \o domain_or_ip_target, 0)

RandomSeed(hash_secret_, domain_or_ip_target) ==
    Digest(hash_secret_ \o Lower(domain_or_ip_target), 0)

Swap(s, i, j) == [s EXCEPT ![i] = s[j], ![j] = s[i]]

\* random.shuffle: Fisher-Yates from the last position down, each draw taken
\* from the generator state rng
RECURSIVE ShuffleFrom(_, _, _)
ShuffleFrom(s, i, rng) ==
    IF i <= 1 THEN [out |-> s, rng |-> rng]
    ELSE ShuffleFrom(Swap(s, i, (rng % i) + 1), i - 1, rng \div i)

Shuffle(s, rng) == ShuffleFrom(s, Len(s), rng)

\* the distinct RIRs of a perspective list, in order of first appearance
RECURSIVE RirsInOrder(_, _)
RirsInOrder(perspectives, seen) ==
    IF perspectives = <<>> THEN <<>>
    ELSE IF Head(perspectives).rir \in seen THEN RirsInOrder(Tail(perspectives), seen)
    ELSE <<Head(perspectives).rir>> \o RirsInOrder(Tail(perspectives), seen \cup {Head(perspectives).rir})

PerspectivesOfRir(perspectives, rir) == SelectSeq(perspectives, LAMBDA p : p.rir = rir)

RECURSIVE ShuffleBuckets(_, _, _)
ShuffleBuckets(perspectives, rirs, rng) ==
    IF rirs = <<>> THEN <<>>
    ELSE LET sh == Shuffle(PerspectivesOfRir(perspectives, Head(rirs)), rng)
         IN  <<sh.out>> \o ShuffleBuckets(perspectives, Tail(rirs), sh.rng)

\* CohortCreator.build_randomly_shuffled_available_perspectives_per_rir:
\* one bucket per RIR, each shuffled with the seeded generator
build_randomly_shuffled_available_perspectives_per_rir(target_perspectives_, random_seed) ==
    ShuffleBuckets(target_perspectives_, RirsInOrder(target_perspectives_, {}), random_seed)

\* stable sort of the buckets, largest first
RECURSIVE InsertBucket(_, _)
InsertBucket(sorted, b) ==
    IF sorted = <<>> THEN <<b>>
    ELSE IF Len(Head(sorted)) >= Len(b) THEN <<Head(sorted)>> \o InsertBucket(Tail(sorted), b)
    ELSE <<b>> \o sorted

RECURSIVE LargestFirst(_)
LargestFirst(buckets) ==
    IF buckets = <<>> THEN <<>>
    ELSE InsertBucket(LargestFirst(SubSeq(buckets, 1, Len(buckets) - 1)), buckets[Len(buckets)])

\* one pass over the buckets, taking the head of each non-empty bucket while
\* the cohort is short of `need` perspectives
RECURSIVE TakeRound(_, _)
TakeRound(buckets, need) ==
    IF buckets = <<>> \/ need = 0 THEN [taken |-> <<>>, rest |-> buckets]
    ELSE IF Head(buckets) = <<>>
         THEN LET r == TakeRound(Tail(buckets), need)
              IN  [taken |-> r.taken, rest |-> <<Head(buckets)>> \o r.rest]
         ELSE LET r == TakeRound(Tail(buckets), need - 1)
              IN  [taken |-> <<Head(Head(buckets))>> \o r.taken,
                   rest |-> <<Tail(Head(buckets))>> \o r.rest]

RECURSIVE FillCohort(_, _)
FillCohort(buckets, need) ==
    LET r == TakeRound(buckets, need)
    IN  IF need = 0 \/ r.taken = <<>> THEN [cohort |-> <<>>, rest |-> buckets]
        ELSE LET more == FillCohort(r.rest, need - Len(r.taken))
             IN  [cohort |-> r.taken \o more.cohort, rest |-> more.rest]

RirCount(perspectives) == Cardinality({perspectives[i].rir : i \in 1..Len(perspectives)})

\* the cohorts without the check of their RIRs
RECURSIVE create_perspective_cohorts_any_rir(_, _)
create_perspective_cohorts_any_rir(perspectives_per_rir, cohort_size) ==
    LET filled == FillCohort(LargestFirst(perspectives_per_rir), cohort_size)
    IN  IF cohort_size < 1 \/ Len(filled.cohort) < cohort_size THEN <<>>
        ELSE <<filled.cohort>> \o create_perspective_cohorts_any_rir(filled.rest, cohort_size)

\* CohortCreator.create_perspective_cohorts: full, non-overlapping cohorts drawn
\* round-robin from the buckets; a cohort of three or more needs two RIRs
RECURSIVE create_perspective_cohorts(_, _)
create_perspective_cohorts(perspectives_per_rir, cohort_size) ==
    LET filled == FillCohort(LargestFirst(perspectives_per_rir), cohort_size)
    IN  IF cohort_size < 1 \/ Len(filled.cohort) < cohort_size THEN <<>>
        ELSE IF cohort_size > 2 /\ RirCount(filled.cohort) < 2 THEN <<>>
        ELSE <<filled.cohort>> \o create_perspective_cohorts(filled.rest, cohort_size)

\* create_cohorts_of_randomly_selected_perspectives, past its two raising steps
create_cohorts_of_randomly_selected_perspectives(hash_secret_, target_perspectives_, cohort_size, domain_or_ip_target) ==
    create_perspective_cohorts(
        build_randomly_shuffled_available_perspectives_per_rir(
            target_perspectives_, RandomSeed(hash_secret_, domain_or_ip_target)),
        cohort_size)

\* the comparison of line 123 taken as >=
CohortSizeTooLargeOrEqual(target_perspectives_, cohort_size) == cohort_size >= Len(target_perspectives_)

\* it raises ValueError
CohortSizeTooLarge(target_perspectives_, cohort_size) == cohort_size > Len(target_perspectives_)

\* it raises UnicodeEncodeError
SeedNotEncodable(hash_secret_, domain_or_ip_target) ==
    ~IsAscii(hash_secret_ \o Lower(domain_or_ip_target))

\* determine_required_quorum_count with one below the count for every count
determine_required_quorum_count_one_below(orchestration_parameters, perspective_count_) ==
    IF orchestration_parameters.present /\ ~IsNone(orchestration_parameters.quorum_count)
    THEN orchestration_parameters.quorum_count
    ELSE IntV(perspective_count_ - 1)

\* determine_required_quorum_count
determine_required_quorum_count(orchestration_parameters, perspective_count_) ==
    IF orchestration_parameters.present /\ ~IsNone(orchestration_parameters.quorum_count)
    THEN orchestration_parameters.quorum_count
    ELSE IF perspective_count_ <= 5 THEN IntV(perspective_count_ - 1) ELSE IntV(perspective_count_ - 2)

\* max_attempts as lines 81-86 resolve it
resolve_max_attempts(orchestration_parameters, global_max_attempts_) ==
    IF orchestration_parameters.present /\ ~IsNone(orchestration_parameters.max_attempts)
    THEN IF ~IsNone(global_max_attempts_) /\ orchestration_parameters.max_attempts.v > global_max_attempts_.v
         THEN global_max_attempts_.v
         ELSE orchestration_parameters.max_attempts.v
    ELSE 1

\* the perspective count the request resolves to
resolve_perspective_count(orchestration_parameters, default_perspective_count_) ==
    IF orchestration_parameters.present /\ ~IsNone(orchestration_parameters.perspective_count)
    THEN orchestration_parameters.perspective_count.v
    ELSE default_perspective_count_

\* ------------------------------------------------------------------------
\* Inputs
\* ------------------------------------------------------------------------
Perspective(code, rir) == [code |-> code, rir |-> rir]

\* two perspectives in two RIRs
PerspectivesPair == <<Perspective("p1", "rir1"), Perspective("p2", "rir2")>>

\* three perspectives in two RIRs
PerspectivesTwoRirs ==
    <<Perspective("p1", "rir1"), Perspective("p2", "rir1"), Perspective("p3", "rir2")>>

\* three perspectives in one RIR
PerspectivesOneRir ==
    <<Perspective("p1", "rir1"), Perspective("p2", "rir1"), Perspective("p3", "rir1")>>

Configuration(perspectives, default_count, global_max, secret) ==
    [target_perspectives |-> perspectives, default_perspective_count |-> default_count,
     global_max_attempts |-> global_max, hash_secret |-> secret]

\* the secret "s"
Secret == <<115>>

\* MpicCoordinatorConfiguration values the coordinator is constructed with
Configurations ==
    { Configuration(PerspectivesPair, 2, None, Secret),
      Configuration(PerspectivesTwoRirs, 2, IntV(2), Secret),
      Configuration(PerspectivesOneRir, 5, IntV(0), Secret) }

\* the targets "Ab" and "\"ub" (u with diaeresis, code 252)
Targets == { <<65, 98>>, <<252, 98>> }

CountValues(max) == {None, StrV} \cup {IntV(n) : n \in (-1)..max}
AttemptValues(max) == {None} \cup {IntV(n) : n \in 0..max}

OrchestrationValues(maxCount, maxAttempts) ==
    {NoOrchestration} \cup
    { Orchestration(pcv, qcv, mav) :
        pcv \in CountValues(maxCount), qcv \in CountValues(maxCount), mav \in AttemptValues(maxAttempts) }

Request(target, op) == [domain_or_ip_target |-> target, orchestration_parameters |-> op]

RequestsFor(targets) ==
    { Request(t, op) : t \in targets, op \in OrchestrationValues(MaxCountReq, MaxAttemptsReq) }

Requests == RequestsFor(Targets)

NoRequest == Request(<<>>, NoOrchestration)

\* ------------------------------------------------------------------------
\* Check responses
\* ------------------------------------------------------------------------
\* the fields of BaseCheckResponse the coordinator reads or sets (both check types alike)
CheckResponse(code, passed, errors) ==
    [perspective_code |-> code, check_passed |-> passed, errors |-> errors]

NoCheckResponse == CheckResponse("", FALSE, <<>>)

\* build_error_response_from_remote_check_exception
build_error_response_without_code(call_config) ==
    CheckResponse("", FALSE, <<"COORDINATOR_COMMUNICATION_ERROR">>)

build_error_response_from_remote_check_exception(call_config) ==
    CheckResponse(call_config.perspective.code, FALSE, <<"COORDINATOR_COMMUNICATION_ERROR">>)

\* the code of the perspective that follows `perspective` in the configured list
CodeOfNext(perspectives, perspective) ==
    LET i == CHOOSE k \in 1..Len(perspectives) : perspectives[k] = perspective
    IN  perspectives[(i % Len(perspectives)) + 1].code

\* what the remote caller may hand back for a call to `perspective`: a passing
\* or a failing response of that perspective; the remote end of the first
\* configured perspective may also answer under the code of another perspective
RemoteReplies(perspectives, perspective) ==
    { CheckResponse(perspective.code, TRUE, <<>>),
      CheckResponse(perspective.code, FALSE, <<"remote check failed">>) }
    \cup
    IF perspective = perspectives[1]
    THEN {CheckResponse(CodeOfNext(perspectives, perspective), TRUE, <<>>)}
    ELSE {}

\* ------------------------------------------------------------------------
\* MpicResponseBuilder
\* ------------------------------------------------------------------------
\* previous_attempt_results is None
NoPreviousAttempts == [present |-> FALSE, lists |-> <<>>]

EffectiveParameters(perspective_count_, quorum_count_, attempt_count) ==
    [perspective_count |-> perspective_count_, quorum_count |-> quorum_count_,
     attempt_count |-> attempt_count]

\* coordinate_mpic has not returned
NoResponse ==
    [kind |-> "pending", is_valid |-> FALSE, perspectives |-> <<>>,
     actual_orchestration_parameters |-> EffectiveParameters(0, None, 0),
     request_orchestration_parameters |-> NoOrchestration,
     domain_or_ip_target |-> <<>>,
     previous_attempt_results |-> NoPreviousAttempts]

\* coordinate_mpic returned None
NoneResponse == [NoResponse EXCEPT !.kind = "None"]

build_response(request, perspective_count_, quorum_count_, attempts_, perspective_responses, is_result_valid, previous_attempt_results_) ==
    [kind |-> "MpicResponse", is_valid |-> is_result_valid, perspectives |-> perspective_responses,
     actual_orchestration_parameters |-> EffectiveParameters(perspective_count_, quorum_count_, attempts_),
     request_orchestration_parameters |-> request.orchestration_parameters,
     domain_or_ip_target |-> request.domain_or_ip_target,
     previous_attempt_results |-> previous_attempt_results_]

\* ------------------------------------------------------------------------
\* Strings (sequences of character codes)
\* ------------------------------------------------------------------------
\* str.isspace() of one character
IsSpace(c) == c \in {9, 10, 11, 12, 13, 32}

\* str.strip()
Strip(s) ==
    LET kept == {i \in 1..Len(s) : ~IsSpace(s[i])}
    IN  IF kept = {} THEN <<>>
        ELSE SubSeq(s, CHOOSE i \in kept : \A j \in kept : i <= j,
                       CHOOSE i \in kept : \A j \in kept : i >= j)

\* sep in s, for a one-character sep
Contains(s, sep) == \E i \in 1..Len(s) : s[i] = sep

\* the position of the first sep in s
FirstIndex(s, sep) == CHOOSE i \in 1..Len(s) : s[i] = sep /\ \A j \in 1..(i - 1) : s[j] # sep

\* str.split(sep), for a one-character sep
RECURSIVE Split(_, _)
Split(s, sep) ==
    IF ~Contains(s, sep) THEN <<s>>
    ELSE <<SubSeq(s, 1, FirstIndex(s, sep) - 1)>> \o Split(SubSeq(s, FirstIndex(s, sep) + 1, Len(s)), sep)

\* str.split(sep, 1)
SplitOnce(s, sep) ==
    IF ~Contains(s, sep) THEN <<s>>
    ELSE <<SubSeq(s, 1, FirstIndex(s, sep) - 1), SubSeq(s, FirstIndex(s, sep) + 1, Len(s))>>

\* sep.join(parts)
RECURSIVE Join(_, _)
Join(parts, sep) ==
    IF parts = <<>> THEN <<>>
    ELSE IF Len(parts) = 1 THEN parts[1]
    ELSE parts[1] \o <<sep>> \o Join(Tail(parts), sep)

\* s.startswith(prefix)
StartsWith(s, prefix) == Len(s) >= Len(prefix) /\ SubSeq(s, 1, Len(prefix)) = prefix

\* needle in haystack, for strings
IsSubstring(needle, haystack) ==
    \E i \in 1..(Len(haystack) - Len(needle) + 1) : SubSeq(haystack, i, i + Len(needle) - 1) = needle

\* str(n) of a non-negative int
RECURSIVE Decimal(_)
Decimal(n) == IF n < 10 THEN <<48 + n>> ELSE Decimal(n \div 10) \o <<48 + (n % 10)>>

\* [a-zA-Z0-9]
IsAlnum(c) == (48 <= c /\ c <= 57) \/ (65 <= c /\ c <= 90) \/ (97 <= c /\ c <= 122)

\* [a-zA-Z0-9]+(-*[a-zA-Z0-9]+)* over the whole of s
IsLdhWord(s) ==
    /\ s # <<>>
    /\ IsAlnum(s[1])
    /\ IsAlnum(s[Len(s)])
    /\ \A i \in 1..Len(s) : IsAlnum(s[i]) \/ s[i] = 45

\* re.match(r"^[a-zA-Z0-9]+(-*[a-zA-Z0-9]+)*$", s): $ also matches before a final newline
MatchesTagRegex(s) ==
    \/ IsLdhWord(s)
    \/ s # <<>> /\ s[Len(s)] = 10 /\ IsLdhWord(SubSeq(s, 1, Len(s) - 1))

\* ------------------------------------------------------------------------
\* MpicCaaChecker
\* ------------------------------------------------------------------------
\* a value that is not None
Some(x) == [t |-> "some", v |-> x]

\* time.time_ns()
time_ns == IntV(1)

ISSUE_TAG == <<105, 115, 115, 117, 101>>
ISSUEWILD_TAG == <<105, 115, 115, 117, 101, 119, 105, 108, 100>>
ISSUEMAIL_TAG == <<105, 115, 115, 117, 101, 109, 97, 105, 108>>
IODEF_TAG == <<105, 111, 100, 101, 102>>
CONTACTEMAIL_TAG == <<99, 111, 110, 116, 97, 99, 116, 101, 109, 97, 105, 108>>
CONTACTPHONE_TAG == <<99, 111, 110, 116, 97, 99, 116, 112, 104, 111, 110, 101>>

\* a CAA resource record
CaaRecord(flags, tag, value) == [flags |-> flags, tag |-> tag, value |-> value]

\* the outcome of extract_domain_and_parameters_from_caa_value: the issuer domain
\* name, or ValueError
Parsed(issuer_domain_name) == [raised |-> FALSE, domain |-> issuer_domain_name]
ParseValueError == [raised |-> TRUE, domain |-> <<>>]

\* lines 182-197: one parameter is tag=value, with a well-formed tag and a
\* value of the characters 0x21-0x7E other than ";"
IsWellFormedParameter(parameter) ==
    LET tag_and_value == SplitOnce(parameter, 61)
    IN  /\ Len(tag_and_value) = 2
        /\ MatchesTagRegex(Strip(tag_and_value[1]))
        /\ LET value == Strip(tag_and_value[2])
           IN  \A i \in 1..Len(value) : 33 <= value[i] /\ value[i] <= 126 /\ value[i] # 59

\* lines 203-211: the issuer domain name is empty or made of well-formed labels
IsWellFormedIssuer(issuer_domain_name) ==
    \/ issuer_domain_name = <<>>
    \/ LET domain_labels == Split(issuer_domain_name, 46)
       IN  \A i \in 1..Len(domain_labels) : MatchesTagRegex(domain_labels[i])

\* the parser accepting any parameter text
extract_domain_ignoring_parameters(caa_value) ==
    LET issuer_domain_name == Strip(Split(caa_value, 59)[1])
    IN  IF IsWellFormedIssuer(issuer_domain_name) THEN Parsed(issuer_domain_name) ELSE ParseValueError

\* MpicCaaChecker.extract_domain_and_parameters_from_caa_value
extract_domain_and_parameters_from_caa_value(caa_value) ==
    LET parts == Split(caa_value, 59)
        issuer_domain_name == Strip(parts[1])
        param_list == Tail(parts)
        parameters_ok ==
            \/ ~Contains(caa_value, 59)
            \/ Len(param_list) = 1 /\ Strip(param_list[1]) = <<>>
            \/ \A i \in 1..Len(param_list) : IsWellFormedParameter(param_list[i])
    IN  IF parameters_ok /\ IsWellFormedIssuer(issuer_domain_name)
        THEN Parsed(issuer_domain_name)
        ELSE ParseValueError

\* the loop stopping at the first value that does not parse
RECURSIVE do_caa_values_permit_issuance_until_malformed(_, _)
do_caa_values_permit_issuance_until_malformed(value_list_, caa_domains_) ==
    IF value_list_ = <<>> THEN FALSE
    ELSE LET parsed == extract_domain_and_parameters_from_caa_value(Head(value_list_))
         IN  IF parsed.raised THEN FALSE
             ELSE IF parsed.domain \in SeqToSet(caa_domains_) THEN TRUE
             ELSE do_caa_values_permit_issuance_until_malformed(Tail(value_list_), caa_domains_)

\* MpicCaaChecker.do_caa_values_permit_issuance
RECURSIVE do_caa_values_permit_issuance(_, _)
do_caa_values_permit_issuance(value_list_, caa_domains_) ==
    IF value_list_ = <<>> THEN FALSE
    ELSE LET parsed == extract_domain_and_parameters_from_caa_value(Head(value_list_))
         IN  IF ~parsed.raised /\ parsed.domain \in SeqToSet(caa_domains_) THEN TRUE
             ELSE do_caa_values_permit_issuance(Tail(value_list_), caa_domains_)

\* resource_record.flags & 0b10000000
IsCritical(flags) == (flags \div 128) % 2 = 1

\* the values of the records whose lower-cased tag is `tag`, in record order
ValuesTagged(rrset_, tag) ==
    LET tagged == SelectSeq(rrset_, LAMBDA resource_record : Lower(resource_record.tag) = tag)
    IN  [i \in 1..Len(tagged) |-> tagged[i].value]

\* the critical flag counted on every tag outside issue and issuewild
has_unknown_critical_flags_no_allow_list(rrset_) ==
    \E i \in 1..Len(rrset_) :
        Lower(rrset_[i].tag) \notin {ISSUE_TAG, ISSUEWILD_TAG} /\ IsCritical(rrset_[i].flags)

\* the critical flag never read
has_unknown_critical_flags_never(rrset_) == FALSE

\* lines 135-139
has_unknown_critical_flags(rrset_) ==
    \E i \in 1..Len(rrset_) :
        /\ Lower(rrset_[i].tag) \notin {ISSUE_TAG, ISSUEWILD_TAG}
        /\ Lower(rrset_[i].tag) \notin {CONTACTEMAIL_TAG, CONTACTPHONE_TAG, ISSUEMAIL_TAG, IODEF_TAG}
        /\ IsCritical(rrset_[i].flags)

\* the list of values lines 144-147 hand to do_caa_values_permit_issuance
\* (None when none is evaluated)
values_evaluated(is_wc_domain_, rrset_) ==
    IF is_wc_domain_ /\ Len(ValuesTagged(rrset_, ISSUEWILD_TAG)) > 0
    THEN Some(ValuesTagged(rrset_, ISSUEWILD_TAG))
    ELSE IF Len(ValuesTagged(rrset_, ISSUE_TAG)) > 0
    THEN Some(ValuesTagged(rrset_, ISSUE_TAG))
    ELSE None

\* MpicCaaChecker.is_valid_for_issuance
is_valid_for_issuance(caa_domains_, is_wc_domain_, rrset_) ==
    IF has_unknown_critical_flags(rrset_) THEN FALSE
    ELSE IF IsNone(values_evaluated(is_wc_domain_, rrset_)) THEN TRUE
    ELSE do_caa_values_permit_issuance(values_evaluated(is_wc_domain_, rrset_).v, caa_domains_)

\* dns.name.from_text: the labels of an absolute name, the root being <<>>
from_text(text) ==
    LET labels == Split(text, 46)
    IN  IF text = <<>> \/ text = <<46>> THEN <<>>
        ELSE IF labels[Len(labels)] = <<>> THEN SubSeq(labels, 1, Len(labels) - 1)
        ELSE labels

\* dns.name.root
root == <<>>

\* Name.parent()
parent(name) == Tail(name)

\* Name.to_text(omit_final_dot=True)
to_text_omit_final_dot(name) == Join(name, 46)

\* rdata.to_text() of a CAA record: flags tag "value"
caa_to_text(record_data) ==
    Decimal(record_data.flags) \o <<32>> \o record_data.tag \o <<32, 34>> \o record_data.value \o <<34>>

\* the A-label of a label: ASCII labels stand as they are, the label u-diaeresis becomes xn--tda
ALabel(label) ==
    IF IsAscii(label) THEN label
    ELSE IF label = <<252>> THEN <<120, 110, 45, 45, 116, 100, 97>>
    ELSE <<120, 110, 45, 45>> \o [i \in 1..Len(label) |-> IF label[i] < 128 THEN label[i] ELSE 45]

\* DomainEncoder.prepare_target_for_lookup: label by label, a leading "*." kept
prepare_target_for_lookup(target) ==
    LET labels == Split(target, 46)
    IN  Join([i \in 1..Len(labels) |-> ALabel(labels[i])], 46)

\* ------------------------------------------------------------------------
\* MpicDcvChecker: HTTP-based validation
\* ------------------------------------------------------------------------
\* ".well-known/pki-validation"
WELL_KNOWN_PKI_PATH == <<46, 119, 101, 108, 108, 45, 107, 110, 111, 119, 110, 47, 112, 107, 105, 45, 118, 97, 108, 105, 100, 97, 116, 105, 111, 110>>
\* ".well-known/acme-challenge"
WELL_KNOWN_ACME_PATH == <<46, 119, 101, 108, 108, 45, 107, 110, 111, 119, 110, 47, 97, 99, 109, 101, 45, 99, 104, 97, 108, 108, 101, 110, 103, 101>>

\* fewest bytes of the body that line 218 asks for
MinBytesToRead == 100

Max(a, b) == IF a >= b THEN a ELSE b
Min(a, b) == IF a <= b THEN a ELSE b

\* n spaces
Spaces(n) == [i \in 1..n |-> 32]

\* the characters of the base64 alphabet, by value
Base64Char(n) ==
    IF n < 26 THEN 65 + n
    ELSE IF n < 52 THEN 97 + (n - 26)
    ELSE IF n < 62 THEN 48 + (n - 52)
    ELSE IF n = 62 THEN 43 ELSE 47

\* the byte at position i, 0 past the end
ByteAt(content, i) == IF i <= Len(content) THEN content[i] ELSE 0

\* base64.b64encode(content).decode(): four characters for every three bytes, padded with "="
b64encode(content) ==
    [k \in 1..(4 * ((Len(content) + 2) \div 3)) |->
        LET first == 3 * ((k - 1) \div 4) + 1
            b1 == ByteAt(content, first)
            b2 == ByteAt(content, first + 1)
            b3 == ByteAt(content, first + 2)
        IN  IF (k - 1) % 4 = 0 THEN Base64Char(b1 \div 4)
            ELSE IF (k - 1) % 4 = 1 THEN Base64Char((b1 % 4) * 16 + b2 \div 16)
            ELSE IF (k - 1) % 4 = 2
            THEN IF first + 1 > Len(content) THEN 61 ELSE Base64Char((b2 % 16) * 4 + b3 \div 64)
            ELSE IF first + 2 > Len(content) THEN 61 ELSE Base64Char(b3 % 64)]

\* UTF-8 of characters of one or two bytes: a byte that continues a character
IsContinuation(byte) == 128 <= byte /\ byte <= 191

\* the positions of content at which a character begins
CharacterStarts(content) ==
    SelectSeq([i \in 1..Len(content) |-> i], LAMBDA i : ~IsContinuation(content[i]))

\* bytes.decode("utf-8"): the text, or UnicodeDecodeError
utf8_decode(content) ==
    [raised |->
        \E i \in 1..Len(content) :
            \/ content[i] \in {192, 193} \/ content[i] >= 224
            \/ content[i] >= 194 /\ (i = Len(content) \/ ~IsContinuation(content[i + 1]))
            \/ IsContinuation(content[i]) /\ (i = 1 \/ content[i - 1] < 194),
     text |->
        [k \in 1..Len(CharacterStarts(content)) |->
            LET i == CharacterStarts(content)[k]
            IN  IF content[i] < 128 \/ i = Len(content) THEN content[i]
                ELSE ((content[i] - 192) % 32) * 64 + (content[i + 1] % 64)]]

\* "[0-9]*"
DigitsStar == <<91, 48, 45, 57, 93, 42>>

IsDigit(c) == 48 <= c /\ c <= 57

\* a character that stands for itself in a pattern
IsLiteral(c) == IsAlnum(c) \/ c \in {45, 95, 32}

\* re.compile accepts the pattern: literals and [0-9]*, ^ only in front, $ only at the end
RECURSIVE IsRegexBody(_)
IsRegexBody(pattern) ==
    \/ pattern = <<>>
    \/ pattern = <<36>>
    \/ StartsWith(pattern, DigitsStar) /\ IsRegexBody(SubSeq(pattern, 7, Len(pattern)))
    \/ IsLiteral(Head(pattern)) /\ IsRegexBody(Tail(pattern))

IsRegex(pattern) ==
    IF pattern # <<>> /\ Head(pattern) = 94 THEN IsRegexBody(Tail(pattern)) ELSE IsRegexBody(pattern)

\* the pattern, without a leading ^, matches at the start of text
RECURSIVE MatchesHere(_, _)
MatchesHere(pattern, text) ==
    IF pattern = <<>> THEN TRUE
    ELSE IF pattern = <<36>> THEN text = <<>> \/ text = <<10>>
    ELSE IF StartsWith(pattern, DigitsStar)
    THEN \/ MatchesHere(SubSeq(pattern, 7, Len(pattern)), text)
         \/ text # <<>> /\ IsDigit(Head(text)) /\ MatchesHere(pattern, Tail(text))
    ELSE text # <<>> /\ Head(text) = Head(pattern) /\ MatchesHere(Tail(pattern), Tail(text))

\* re.search(pattern, text) is not None, for a pattern re.compile accepts
re_search(pattern, text) ==
    IF pattern # <<>> /\ Head(pattern) = 94
    THEN MatchesHere(Tail(pattern), text)
    ELSE \E i \in 1..(Len(text) + 1) : MatchesHere(pattern, SubSeq(text, i, Len(text)))

\* line 232: a match_regex is given
has_match_regex(match_regex) == ~IsNone(match_regex) /\ Len(match_regex.v) > 0

\* lines 231-233 raise re.error
regex_search_raises(validation_method, match_regex) ==
    validation_method = "WEBSITE_CHANGE" /\ has_match_regex(match_regex) /\ ~IsRegex(match_regex.v)

\* the verdict with the substring test for both methods
http_check_passed_by_substring(validation_method, expected_response_content, match_regex, result) ==
    /\ IsSubstring(expected_response_content, result)
    /\ (validation_method # "ACME_HTTP_01" /\ has_match_regex(match_regex)) => re_search(match_regex.v, result)

\* the verdict of WEBSITE_CHANGE with match_regex left unread
http_check_passed_without_regex(validation_method, expected_response_content, match_regex, result) ==
    IF validation_method = "ACME_HTTP_01"
    THEN expected_response_content = result
    ELSE IsSubstring(expected_response_content, result)

\* lines 224-234: the verdict on the stripped text of the bytes read
http_check_passed(validation_method, expected_response_content, match_regex, result) ==
    IF validation_method = "ACME_HTTP_01"
    THEN expected_response_content = result
    ELSE /\ IsSubstring(expected_response_content, result)
         /\ has_match_regex(match_regex) => re_search(match_regex.v, result)

\* dcv_check_parameters of the HTTP-based methods
WebsiteChangeParameters(challenge_value, match_regex, url_scheme, http_token_path) ==
    [validation_method |-> "WEBSITE_CHANGE", challenge_value |-> challenge_value, match_regex |-> match_regex,
     url_scheme |-> url_scheme, http_token_path |-> http_token_path,
     key_authorization |-> <<>>, token |-> <<>>]

AcmeHttp01Parameters(key_authorization, token) ==
    [validation_method |-> "ACME_HTTP_01", challenge_value |-> <<>>, match_regex |-> None,
     url_scheme |-> <<>>, http_token_path |-> <<>>,
     key_authorization |-> key_authorization, token |-> token]

DcvCheckRequest(target, dcv_check_parameters) ==
    [domain_or_ip_target |-> target, dcv_check_parameters |-> dcv_check_parameters]

\* lines 161-171: the content expected in the body
expected_response_content_of(request) ==
    IF request.dcv_check_parameters.validation_method = "WEBSITE_CHANGE"
    THEN request.dcv_check_parameters.challenge_value
    ELSE request.dcv_check_parameters.key_authorization

\* lines 165, 170-172
token_url_of(request) ==
    IF request.dcv_check_parameters.validation_method = "WEBSITE_CHANGE"
    THEN request.dcv_check_parameters.url_scheme \o <<58, 47, 47>> \o request.domain_or_ip_target \o <<47>>
         \o WELL_KNOWN_PKI_PATH \o <<47>> \o request.dcv_check_parameters.http_token_path
    ELSE <<104, 116, 116, 112, 58, 47, 47>> \o request.domain_or_ip_target \o <<47>>
         \o WELL_KNOWN_ACME_PATH \o <<47>> \o request.dcv_check_parameters.token

\* DcvCheckResponse with the details of the HTTP-based methods
DcvCheckResponse(check_passed, timestamp_ns, errors, details) ==
    [check_passed |-> check_passed, timestamp_ns |-> timestamp_ns, errors |-> errors, details |-> details]

EmptyHttpDetails ==
    [response_status_code |-> None, response_url |-> None, response_history |-> None, response_page |-> None]

EmptyDnsDetails == [response_code |-> None, records_seen |-> None, ad_flag |-> None, found_at |-> None]

\* DcvCheckResponseDetailsBuilder.build_response_details: the details of the method's kind
build_response_details(validation_method) ==
    IF validation_method \in {"WEBSITE_CHANGE", "ACME_HTTP_01"} THEN EmptyHttpDetails ELSE EmptyDnsDetails

\* MpicDcvChecker.create_empty_check_response
create_empty_check_response(validation_method) ==
    DcvCheckResponse(FALSE, None, None, build_response_details(validation_method))

\* an HTTP response: status line, redirects followed, the body, and how many
\* bytes of the body are at hand when the checker reads
HttpResponse(status, reason, history, body, buffered) ==
    [status |-> status, reason |-> reason, history |-> history, body |-> body, buffered |-> buffered]

NoHttpResponse == HttpResponse(0, "", <<>>, <<>>, 0)

\* lines 204-213
response_history_of(lookup_response_) ==
    IF Len(lookup_response_.history) > 0
    THEN Some([i \in 1..Len(lookup_response_.history) |->
                  [status_code |-> lookup_response_.history[i].status,
                   url |-> lookup_response_.history[i].location]])
    ELSE None

\* lines 218-219: lookup_response.content.read(bytes_to_read)
content_read(lookup_response_, expected_response_content) ==
    SubSeq(lookup_response_.body, 1,
           Min(lookup_response_.buffered, Max(MinBytesToRead, Len(expected_response_content))))

\* lines 215-238: the response to HTTP 200
http_ok_response(request, lookup_response_, content_) ==
    DcvCheckResponse(
        http_check_passed(request.dcv_check_parameters.validation_method,
                          expected_response_content_of(request),
                          request.dcv_check_parameters.match_regex,
                          Strip(utf8_decode(content_).text)),
        time_ns, None,
        [response_status_code |-> Some(lookup_response_.status),
         response_url |-> Some(token_url_of(request)),
         response_history |-> response_history_of(lookup_response_),
         response_page |-> Some(b64encode(content_))])

\* lines 215, 239-242: the response to any other status
http_status_error_response(lookup_response_) ==
    DcvCheckResponse(FALSE, time_ns,
                     Some(<<[error_type |-> ToString(lookup_response_.status), error_message |-> lookup_response_.reason]>>),
                     EmptyHttpDetails)

\* lines 182-184: the response to an exception the except clause names
http_exception_response(exception) ==
    DcvCheckResponse(FALSE, time_ns,
                     Some(<<[error_type |-> exception, error_message |-> exception]>>), EmptyHttpDetails)

\* line 182: the exception is a ClientError or an HTTPException
is_client_error(exception) ==
    exception \in {"ClientConnectionError", "ClientPayloadError", "ServerTimeoutError", "HTTPException"}

\* an aiohttp.ClientSession
HttpClient(closed, loop) == [closed |-> closed, loop |-> loop]

\* ------------------------------------------------------------------------
\* MpicDcvChecker: DNS-based validation
\* ------------------------------------------------------------------------
CONTACT_EMAIL_TAG == <<99, 111, 110, 116, 97, 99, 116, 101, 109, 97, 105, 108>>

CONTACT_PHONE_TAG == <<99, 111, 110, 116, 97, 99, 116, 112, 104, 111, 110, 101>>

\* dcv_check_parameters of the DNS-based methods
DnsCheckParameters(validation_method, dns_record_type, dns_name_prefix, challenge_value, key_authorization, require_exact_match) ==
    [validation_method |-> validation_method, dns_record_type |-> dns_record_type,
     dns_name_prefix |-> dns_name_prefix, challenge_value |-> challenge_value,
     key_authorization |-> key_authorization, require_exact_match |-> require_exact_match]

\* lines 109-112
name_to_resolve_of(request) ==
    IF ~IsNone(request.dcv_check_parameters.dns_name_prefix)
       /\ Len(request.dcv_check_parameters.dns_name_prefix.v) > 0
    THEN request.dcv_check_parameters.dns_name_prefix.v \o <<46>> \o request.domain_or_ip_target
    ELSE request.domain_or_ip_target

\* lines 114-117
expected_dns_record_content_of(request) ==
    IF request.dcv_check_parameters.validation_method = "ACME_DNS_01"
    THEN request.dcv_check_parameters.key_authorization
    ELSE request.dcv_check_parameters.challenge_value

\* lines 107, 114-118 taking require_exact_match for every method
exact_match_as_requested(request) == request.dcv_check_parameters.require_exact_match

\* lines 107, 114-118
exact_match_of(request) ==
    IF request.dcv_check_parameters.validation_method = "ACME_DNS_01"
    THEN TRUE
    ELSE request.dcv_check_parameters.require_exact_match

\* lines 138-140
walk_domain_tree(validation_method, dns_record_type) ==
    validation_method \in {"CONTACT_EMAIL", "CONTACT_PHONE"} /\ dns_record_type = "CAA"

\* record data by type: TXT holds character strings, CNAME a target name, A an
\* address, CAA flags, tag and value
TxtRecord(strings) == [rdtype |-> "TXT", strings |-> strings]

CnameRecord(target) == [rdtype |-> "CNAME", target |-> target]

ARecord(address) == [rdtype |-> "A", address |-> address]

CaaRdata(flags, tag, value) == [rdtype |-> "CAA", flags |-> flags, tag |-> tag, value |-> value]

\* rdata.to_text(): TXT renders each string in double quotes, CNAME the
\* absolute target with its final dot
rdata_to_text(record_data) ==
    CASE record_data.rdtype = "TXT" ->
             Join([i \in 1..Len(record_data.strings) |-> <<34>> \o record_data.strings[i] \o <<34>>], 32)
      [] record_data.rdtype = "CNAME" -> record_data.target \o <<46>>
      [] record_data.rdtype = "CAA" -> caa_to_text(record_data)
      [] OTHER -> record_data.address

\* an RRset of the answer section, and a dns.resolver.Answer
RRset(rdtype, items) == [rdtype |-> rdtype, items |-> items]

DnsAnswer(qname, rcode, ad, answer) == [qname |-> qname, rcode |-> rcode, ad |-> ad, answer |-> answer]

NoDnsAnswer == DnsAnswer(<<>>, "NOERROR", FALSE, <<>>)

\* lines 259-270: the record is passed over
is_skipped_without_tag_check(validation_method, dns_record_type, record_data) == FALSE

\* lines 259-270: the record is passed over
is_skipped(validation_method, dns_record_type, record_data) ==
    \/ /\ validation_method = "CONTACT_EMAIL"
       /\ dns_record_type = "CAA"
       /\ Lower(record_data.tag) # CONTACT_EMAIL_TAG
    \/ /\ validation_method = "CONTACT_PHONE"
       /\ dns_record_type = "CAA"
       /\ Lower(record_data.tag) # CONTACT_PHONE_TAG

\* lines 259-273: the string taken from a record that is not passed over
record_data_as_string(validation_method, dns_record_type, record_data) ==
    IF walk_domain_tree(validation_method, dns_record_type)
    THEN record_data.value
    ELSE rdata_to_text(record_data)

\* lines 276-277
remove_enclosing_quotes(s) ==
    IF s[1] = 34 /\ s[Len(s)] = 34 THEN SubSeq(s, 2, Len(s) - 1) ELSE s

\* lines 256-258: the records of the RRsets of the type asked for, in answer order
RECURSIVE records_of_type(_, _)
records_of_type(answer, dns_record_type) ==
    IF answer = <<>> THEN <<>>
    ELSE (IF answer[1].rdtype = dns_record_type THEN answer[1].items ELSE <<>>)
         \o records_of_type(Tail(answer), dns_record_type)

\* lines 256-273: the strings of the records kept, before the quotes are removed
strings_of_records_kept(validation_method, dns_record_type, lookup_) ==
    LET records == records_of_type(lookup_.answer, dns_record_type)
        kept == SelectSeq(records, LAMBDA r : ~is_skipped(validation_method, dns_record_type, r))
    IN  [i \in 1..Len(kept) |-> record_data_as_string(validation_method, dns_record_type, kept[i])]

\* line 276: record_data_as_string[0] of an empty string
raises_index_error(validation_method, dns_record_type, lookup_) ==
    \E i \in DOMAIN strings_of_records_kept(validation_method, dns_record_type, lookup_) :
        strings_of_records_kept(validation_method, dns_record_type, lookup_)[i] = <<>>

\* lines 254-278
records_as_strings_of(validation_method, dns_record_type, lookup_) ==
    LET strings == strings_of_records_kept(validation_method, dns_record_type, lookup_)
    IN  [i \in 1..Len(strings) |-> remove_enclosing_quotes(strings[i])]

\* lines 287-298 running the contains check whatever exact_match says
dns_check_passed_by_substring(dns_record_type, expected_dns_record_content, exact_match, records_as_strings) ==
    LET expected == IF dns_record_type = "CNAME" THEN Lower(expected_dns_record_content)
                    ELSE expected_dns_record_content
        records == IF dns_record_type = "CNAME"
                   THEN [i \in 1..Len(records_as_strings) |-> Lower(records_as_strings[i])]
                   ELSE records_as_strings
    IN  \E i \in 1..Len(records) : IsSubstring(expected, records[i])

\* lines 287-298
dns_check_passed(dns_record_type, expected_dns_record_content, exact_match, records_as_strings) ==
    LET expected == IF dns_record_type = "CNAME" THEN Lower(expected_dns_record_content)
                    ELSE expected_dns_record_content
        records == IF dns_record_type = "CNAME"
                   THEN [i \in 1..Len(records_as_strings) |-> Lower(records_as_strings[i])]
                   ELSE records_as_strings
    IN  IF exact_match
        THEN \E i \in 1..Len(records) : records[i] = expected
        ELSE \E i \in 1..Len(records) : IsSubstring(expected, records[i])

\* lines 253-299: the response to an answer
dns_answer_response(request, lookup_) ==
    LET validation_method == request.dcv_check_parameters.validation_method
        dns_record_type == request.dcv_check_parameters.dns_record_type
        records_as_strings == records_as_strings_of(validation_method, dns_record_type, lookup_)
    IN  DcvCheckResponse(
            dns_check_passed(dns_record_type, expected_dns_record_content_of(request),
                             exact_match_of(request), records_as_strings),
            time_ns, None,
            [response_code |-> Some(lookup_.rcode), records_seen |-> Some(records_as_strings),
             ad_flag |-> Some(lookup_.ad), found_at |-> Some(to_text_omit_final_dot(lookup_.qname))])

\* a dns.exception.DNSException: its class and its msg
DnsException(class, msg) == [class |-> class, msg |-> msg]

\* lines 131-133 keeping errors unset
dns_exception_response_without_error(exception) == DcvCheckResponse(FALSE, time_ns, None, EmptyDnsDetails)

\* lines 131-133: the response to a DNSException
dns_exception_response(exception) ==
    DcvCheckResponse(FALSE, time_ns,
                     Some(<<[error_type |-> exception.class, error_message |-> exception.msg]>>),
                     EmptyDnsDetails)

\* ------------------------------------------------------------------------
\* State
\* ------------------------------------------------------------------------
VARIABLES
    \* MpicCoordinator fields
    target_perspectives, default_perspective_count, global_max_attempts, hash_secret,
    \* where coordinate_mpic stands: idle, loop, gather, returned, raised, validated
    pc,
    \* the exception coordinate_mpic raised
    error,
    \* locals of coordinate_mpic
    mpic_request, validation, perspective_count, quorum_count, max_attempts, attempts,
    previous_attempt_results, perspective_cohorts, cohort_cycle, perspectives_to_use,
    \* the remote calls of the attempt under way, one per perspective of the cohort
    tasks,
    \* history: a call of the attempt under way completed while a call started
    \* before it was still pending
    out_of_order,
    \* what coordinate_mpic returned
    response,
    \* history: the cohort of every attempt dispatched, and the outcome of every attempt evaluated
    dispatched, attempt_log,
    \* history: the earlier calls of coordinate_mpic on this coordinator
    earlier_runs,
    \* MpicCaaChecker field
    default_caa_domain_list,
    \* where check_caa stands: idle, lookup, returned, values, evaluated
    caa_pc,
    \* locals of check_caa and find_caa_records_and_domain
    caa_request, caa_domains, is_wc_domain, domain, rrset, caa_check_response,
    \* history: the CAA queries sent, each with its outcome
    caa_queries,
    \* the argument and the result of do_caa_values_permit_issuance
    value_list, issuance_permitted,
    \* MpicDcvChecker fields; http_clients holds every ClientSession created, by number
    reuse_http_client, async_http_client, http_client_loop, http_clients,
    \* where check_dcv stands: idle, get, read, returned, raised
    dcv_pc,
    \* the exception check_dcv raised
    dcv_error,
    \* locals of check_dcv, perform_http_based_validation and evaluate_http_lookup_response
    dcv_request, current_loop, http_client, lookup_response, content, dcv_check_response,
    \* locals of perform_general_dns_validation and perform_dns_resolution
    name_to_resolve, dcv_domain, lookup,
    \* history: the DNS queries of the check, each with its outcome
    dns_queries,
    \* the calls of check_dcv (for an HTTP-based method) and of shutdown made on the
    \* checker, each with the place where it stands in get_async_http_client or shutdown
    client_tasks,
    \* history: for every assignment to dcv_check_response.timestamp_ns, where check_dcv stood after the step that made it
    timestamp_writes

configVars == <<target_perspectives, default_perspective_count, global_max_attempts, hash_secret>>

runVars == <<pc, error, mpic_request, validation, perspective_count, quorum_count,
             max_attempts, attempts, previous_attempt_results, perspective_cohorts, cohort_cycle,
             perspectives_to_use, tasks, out_of_order, response, dispatched, attempt_log>>

caaVars == <<default_caa_domain_list, caa_pc, caa_request, caa_domains, is_wc_domain, domain, rrset,
             caa_check_response, caa_queries, value_list, issuance_permitted>>

dnsLocals == <<name_to_resolve, dcv_domain, lookup, dns_queries>>

dcvVars == <<reuse_http_client, async_http_client, http_client_loop, http_clients, dcv_pc, dcv_error,
             dcv_request, current_loop, http_client, lookup_response, content, dcv_check_response,
             dnsLocals, client_tasks, timestamp_writes>>

checkerVars == <<caaVars, dcvVars>>

vars == <<configVars, runVars, earlier_runs, checkerVars>>

\* CaaCheckResponse, with its CaaCheckResponseDetails
CaaCheckResponse(check_passed, errors, caa_record_present, found_at, records_seen, timestamp_ns) ==
    [check_passed |-> check_passed, errors |-> errors,
     details |-> [caa_record_present |-> caa_record_present, found_at |-> found_at,
                  records_seen |-> records_seen],
     timestamp_ns |-> timestamp_ns]

\* lines 77-82: the response check_caa starts from
EmptyCaaCheckResponse == CaaCheckResponse(FALSE, None, None, None, None, None)

CaaCheckRequest(target, caa_check_parameters) ==
    [domain_or_ip_target |-> target, caa_check_parameters |-> caa_check_parameters]

NoCaaRequest == CaaCheckRequest(<<>>, None)

\* the default list: "a.ca"
DefaultCaaDomainList == << <<97, 46, 99, 97>> >>

\* check_caa not yet called on a checker configured with the default list
CaaIdle ==
    /\ default_caa_domain_list = DefaultCaaDomainList
    /\ caa_pc = "idle"
    /\ caa_request = NoCaaRequest
    /\ caa_domains = <<>>
    /\ is_wc_domain = FALSE
    /\ domain = root
    /\ rrset = None
    /\ caa_check_response = EmptyCaaCheckResponse
    /\ caa_queries = <<>>
    /\ value_list = <<>>
    /\ issuance_permitted = None

NoDcvRequest == DcvCheckRequest(<<>>, AcmeHttp01Parameters(<<>>, <<>>))

\* check_dcv not yet called
DcvCallIdle ==
    /\ dcv_pc = "idle"
    /\ dcv_error = "none"
    /\ dcv_request = NoDcvRequest
    /\ current_loop = "none"
    /\ http_client = 0
    /\ lookup_response = NoHttpResponse
    /\ content = <<>>
    /\ dcv_check_response = create_empty_check_response("ACME_HTTP_01")
    /\ name_to_resolve = <<>>
    /\ dcv_domain = root
    /\ lookup = None
    /\ dns_queries = <<>>
    /\ client_tasks = <<>>
    /\ timestamp_writes = <<>>

\* lines 30-34: a checker just constructed, without client reuse
DcvIdle ==
    /\ reuse_http_client = FALSE
    /\ async_http_client = None
    /\ http_client_loop = None
    /\ http_clients = <<>>
    /\ DcvCallIdle

CheckersIdle == CaaIdle /\ DcvIdle

\* is_request_valid not yet called
NotValidated == [is_request_valid |-> FALSE, validation_issues |-> <<>>]

\* coordinate_mpic not yet called
IdleLocals ==
    /\ error = "none"
    /\ validation = NotValidated
    /\ perspective_count = 0
    /\ quorum_count = None
    /\ max_attempts = 0
    /\ attempts = 0
    /\ previous_attempt_results = NoPreviousAttempts
    /\ perspective_cohorts = <<>>
    /\ cohort_cycle = 0
    /\ perspectives_to_use = <<>>
    /\ tasks = <<>>
    /\ out_of_order = FALSE
    /\ response = NoResponse
    /\ dispatched = <<>>
    /\ attempt_log = <<>>

IdleRun ==
    /\ pc = "idle"
    /\ mpic_request = NoRequest
    /\ IdleLocals

Configured(configurations) ==
    \E c \in configurations :
        /\ target_perspectives = c.target_perspectives
        /\ default_perspective_count = c.default_perspective_count
        /\ global_max_attempts = c.global_max_attempts
        /\ hash_secret = c.hash_secret

Init ==
    /\ Configured(Configurations)
    /\ IdleRun
    /\ earlier_runs = <<>>
    /\ CheckersIdle

\* ------------------------------------------------------------------------
\* coordinate_mpic
\* ------------------------------------------------------------------------
Raise(exception) ==
    /\ pc' = "raised"
    /\ error' = exception

\* lines 61-67: the validator reports issues
RaiseValidationError(request) ==
    /\ pc = "idle"
    /\ ~is_request_valid(request, target_perspectives).is_request_valid
    /\ Raise("MpicRequestValidationError")
    /\ mpic_request' = request
    /\ validation' = is_request_valid(request, target_perspectives)
    /\ UNCHANGED <<configVars, checkerVars, perspective_count, quorum_count, max_attempts, attempts,
                   previous_attempt_results, perspective_cohorts, cohort_cycle, perspectives_to_use,
                   tasks, out_of_order, response, dispatched, attempt_log, earlier_runs>>

\* lines 69-77, 122-127: cohort construction raises
RaiseFromCohortCreation(request) ==
    LET count == resolve_perspective_count(request.orchestration_parameters, default_perspective_count)
    IN  /\ pc = "idle"
        /\ is_request_valid(request, target_perspectives).is_request_valid
        /\ \/ /\ CohortSizeTooLarge(target_perspectives, count)
              /\ Raise("ValueError")
           \/ /\ ~CohortSizeTooLarge(target_perspectives, count)
              /\ SeedNotEncodable(hash_secret, request.domain_or_ip_target)
              /\ Raise("UnicodeEncodeError")
        /\ mpic_request' = request
        /\ validation' = is_request_valid(request, target_perspectives)
        /\ perspective_count' = count
        /\ UNCHANGED <<configVars, checkerVars, quorum_count, max_attempts, attempts,
                       previous_attempt_results, perspective_cohorts, cohort_cycle,
                       perspectives_to_use, tasks, out_of_order, response, dispatched, attempt_log, earlier_runs>>

\* lines 69-89: parameters resolved, cohorts built, the loop is entered
StartAttempts(request) ==
    LET op == request.orchestration_parameters
        count == resolve_perspective_count(op, default_perspective_count)
    IN  /\ pc = "idle"
        /\ is_request_valid(request, target_perspectives).is_request_valid
        /\ ~CohortSizeTooLarge(target_perspectives, count)
        /\ ~SeedNotEncodable(hash_secret, request.domain_or_ip_target)
        /\ pc' = "loop"
        /\ mpic_request' = request
        /\ validation' = is_request_valid(request, target_perspectives)
        /\ perspective_count' = count
        /\ perspective_cohorts' = create_cohorts_of_randomly_selected_perspectives(
                                      hash_secret, target_perspectives, count, request.domain_or_ip_target)
        /\ quorum_count' = determine_required_quorum_count(op, count)
        /\ max_attempts' = resolve_max_attempts(op, global_max_attempts)
        /\ attempts' = 1
        /\ previous_attempt_results' = NoPreviousAttempts
        /\ cohort_cycle' = 0
        /\ UNCHANGED <<configVars, checkerVars, error, perspectives_to_use, tasks, out_of_order, response,
                       dispatched, attempt_log, earlier_runs>>

PendingTask == [state |-> "pending", response |-> NoCheckResponse]

\* an iterator that stays on the last cohort once the list is used up
NextOfCycleStayingOnLast(cohorts, k) == cohorts[IF k < Len(cohorts) THEN k + 1 ELSE Len(cohorts)]

\* next(cohort_cycle): the cohort the cyclic iterator yields at position k (from 0)
NextOfCycle(cohorts, k) == cohorts[(k % Len(cohorts)) + 1]

\* lines 90-96, 217-223: the next cohort is taken and one call per perspective is started
DispatchAttempt ==
    /\ pc = "loop"
    /\ attempts <= max_attempts
    /\ perspective_cohorts # <<>>
    /\ pc' = "gather"
    /\ perspectives_to_use' = NextOfCycle(perspective_cohorts, cohort_cycle)
    /\ cohort_cycle' = cohort_cycle + 1
    /\ tasks' = [i \in 1..Len(perspectives_to_use') |-> PendingTask]
    /\ dispatched' = Append(dispatched, perspectives_to_use')
    /\ UNCHANGED <<configVars, checkerVars, error, mpic_request, validation, perspective_count,
                   quorum_count, max_attempts, attempts, previous_attempt_results,
                   perspective_cohorts, response, attempt_log, earlier_runs>>

\* line 91 with no cohort: next() of an empty cycle ends the coroutine with RuntimeError
RaiseFromEmptyCycle ==
    /\ pc = "loop"
    /\ attempts <= max_attempts
    /\ perspective_cohorts = <<>>
    /\ Raise("RuntimeError")
    /\ UNCHANGED <<configVars, checkerVars, mpic_request, validation, perspective_count, quorum_count,
                   max_attempts, attempts, previous_attempt_results, perspective_cohorts,
                   cohort_cycle, perspectives_to_use, tasks, out_of_order, response, dispatched, attempt_log,
                   earlier_runs>>

\* line 90 false on entry: the function ends without a return statement
FallOutOfLoop ==
    /\ pc = "loop"
    /\ ~(attempts <= max_attempts)
    /\ pc' = "returned"
    /\ response' = NoneResponse
    /\ UNCHANGED <<configVars, checkerVars, error, mpic_request, validation, perspective_count,
                   quorum_count, max_attempts, attempts, previous_attempt_results,
                   perspective_cohorts, cohort_cycle, perspectives_to_use, tasks, out_of_order, dispatched,
                   attempt_log, earlier_runs>>

\* lines 168-178: the remote caller returns for the i-th call
RemoteReturns(i, reply) ==
    /\ pc = "gather"
    /\ tasks[i].state = "pending"
    /\ tasks' = [tasks EXCEPT ![i] = [state |-> "returned", response |-> reply]]
    /\ UNCHANGED <<configVars, checkerVars, pc, error, mpic_request, validation, perspective_count,
                   quorum_count, max_attempts, attempts, previous_attempt_results,
                   perspective_cohorts, cohort_cycle, perspectives_to_use, response, dispatched,
                   attempt_log, earlier_runs>>

\* lines 172-176: the remote caller raises for the i-th call
RemoteRaises(i) ==
    /\ pc = "gather"
    /\ tasks[i].state = "pending"
    /\ tasks' = [tasks EXCEPT ![i] = [state |-> "raised", response |-> NoCheckResponse]]
    /\ UNCHANGED <<configVars, checkerVars, pc, error, mpic_request, validation, perspective_count,
                   quorum_count, max_attempts, attempts, previous_attempt_results,
                   perspective_cohorts, cohort_cycle, perspectives_to_use, response, dispatched,
                   attempt_log, earlier_runs>>

\* asyncio.gather taken to return with the first result
FirstTaskDone == \E i \in 1..Len(tasks) : tasks[i].state # "pending"

\* asyncio.gather has every result
AllTasksDone == \A i \in 1..Len(tasks) : tasks[i].state # "pending"

CallConfig(perspective) == [perspective |-> perspective]

\* the response list with the replies of the calls that returned first and the
\* error responses of the calls that raised after them
collect_perspective_responses_errors_last(cohort, tasks_) ==
    LET calls == [i \in 1..Len(tasks_) |-> i]
        order == SelectSeq(calls, LAMBDA i : tasks_[i].state # "raised")
                 \o SelectSeq(calls, LAMBDA i : tasks_[i].state = "raised")
    IN  [k \in 1..Len(tasks_) |->
            IF tasks_[order[k]].state = "raised"
            THEN build_error_response_from_remote_check_exception(CallConfig(cohort[order[k]]))
            ELSE tasks_[order[k]].response]

\* lines 225-240: the response list, in the order gather returns the results
collect_perspective_responses(cohort, tasks_) ==
    [i \in 1..Len(tasks_) |->
        IF tasks_[i].state = "raised"
        THEN build_error_response_from_remote_check_exception(CallConfig(cohort[i]))
        ELSE tasks_[i].response]

\* lines 215, 232, 239: validity_per_perspective, keyed by the code of the perspective called
collect_validity_per_perspective(cohort, tasks_) ==
    [c \in {cohort[i].code : i \in 1..Len(cohort)} |->
        \E i \in 1..Len(cohort) :
            /\ cohort[i].code = c
            /\ tasks_[i].state = "returned"
            /\ tasks_[i].response.check_passed]

\* line 98
valid_perspective_count(validity_per_perspective) ==
    Cardinality({c \in DOMAIN validity_per_perspective : validity_per_perspective[c]})

\* lines 99-105
is_valid_result_without_rir(cohort, validity_per_perspective, quorum) ==
    valid_perspective_count(validity_per_perspective) >= quorum

is_valid_result(cohort, validity_per_perspective, quorum) ==
    LET valid_perspectives == SelectSeq(cohort, LAMBDA p : validity_per_perspective[p.code])
    IN  /\ valid_perspective_count(validity_per_perspective) >= quorum
        /\ Len(cohort) > 2 => RirCount(valid_perspectives) >= 2

\* line 107
attempt_is_final_only_at_limit(is_valid, attempts_, max_attempts_) ==
    attempts_ = max_attempts_

attempt_is_final(is_valid, attempts_, max_attempts_) ==
    is_valid \/ attempts_ = max_attempts_

\* lines 115-117
accumulate_newest_first(previous, perspective_responses) ==
    [present |-> TRUE, lists |-> <<perspective_responses>> \o previous.lists]

accumulate_attempt(previous, perspective_responses) ==
    [present |-> TRUE, lists |-> Append(previous.lists, perspective_responses)]

\* an attempt evaluated: its cohort, the result of every call in the order in
\* which the calls were started, the response list built, and the outcome
AttemptOutcome(cohort, perspective_responses, is_valid) ==
    [cohort |-> cohort, results |-> tasks, responses |-> perspective_responses,
     is_valid_result |-> is_valid]

\* line 99 with a quorum_count that is no int: the comparison raises TypeError
RaiseFromQuorumComparison ==
    /\ pc = "gather"
    /\ AllTasksDone
    /\ ~IsInt(quorum_count)
    /\ Raise("TypeError")
    /\ UNCHANGED <<configVars, checkerVars, mpic_request, validation, perspective_count, quorum_count,
                   max_attempts, attempts, previous_attempt_results, perspective_cohorts,
                   cohort_cycle, perspectives_to_use, tasks, out_of_order, response, dispatched, attempt_log,
                   earlier_runs>>

\* lines 96-113: every call is back, the attempt is evaluated and the response returned
ReturnResponse ==
    LET perspective_responses ==
            collect_perspective_responses(perspectives_to_use, tasks)
        validity == collect_validity_per_perspective(perspectives_to_use, tasks)
        is_valid == is_valid_result(perspectives_to_use, validity, quorum_count.v)
    IN  /\ pc = "gather"
        /\ AllTasksDone
        /\ IsInt(quorum_count)
        /\ attempt_is_final(is_valid, attempts, max_attempts)
        /\ pc' = "returned"
        /\ response' = build_response(mpic_request, perspective_count, quorum_count.v, attempts,
                                      perspective_responses, is_valid, previous_attempt_results)
        /\ attempt_log' = Append(attempt_log,
                                 AttemptOutcome(perspectives_to_use, perspective_responses, is_valid))
        /\ UNCHANGED <<configVars, checkerVars, error, mpic_request, validation, perspective_count,
                       quorum_count, max_attempts, attempts, previous_attempt_results,
                       perspective_cohorts, cohort_cycle, perspectives_to_use, tasks, out_of_order, dispatched,
                       earlier_runs>>

\* lines 96-107, 114-118: the attempt failed and another one is left
RetryAttempt ==
    LET perspective_responses ==
            collect_perspective_responses(perspectives_to_use, tasks)
        validity == collect_validity_per_perspective(perspectives_to_use, tasks)
        is_valid == is_valid_result(perspectives_to_use, validity, quorum_count.v)
    IN  /\ pc = "gather"
        /\ AllTasksDone
        /\ IsInt(quorum_count)
        /\ ~attempt_is_final(is_valid, attempts, max_attempts)
        /\ pc' = "loop"
        /\ previous_attempt_results' = accumulate_attempt(previous_attempt_results, perspective_responses)
        /\ attempts' = attempts + 1
        /\ attempt_log' = Append(attempt_log,
                                 AttemptOutcome(perspectives_to_use, perspective_responses, is_valid))
        /\ UNCHANGED <<configVars, checkerVars, error, mpic_request, validation, perspective_count,
                       quorum_count, max_attempts, perspective_cohorts, cohort_cycle,
                       perspectives_to_use, tasks, out_of_order, response, dispatched, earlier_runs>>

\* lines 90-96, the history variable left alone
DispatchStep == DispatchAttempt /\ UNCHANGED out_of_order

\* one remote call of the attempt under way returns or raises
RemoteStep ==
    \E i \in 1..Len(tasks) :
        \/ \E reply \in RemoteReplies(target_perspectives, perspectives_to_use[i]) :
               RemoteReturns(i, reply) /\ UNCHANGED out_of_order
        \/ RemoteRaises(i) /\ UNCHANGED out_of_order

CoordinateMpic(requests) ==
    \/ \E request \in requests : RaiseValidationError(request)
    \/ \E request \in requests : RaiseFromCohortCreation(request)
    \/ \E request \in requests : StartAttempts(request)
    \/ DispatchStep
    \/ RaiseFromEmptyCycle
    \/ FallOutOfLoop
    \/ RemoteStep
    \/ RaiseFromQuorumComparison
    \/ ReturnResponse
    \/ RetryAttempt

Next == CoordinateMpic(Requests)

Spec == Init /\ [][Next]_vars

\* ------------------------------------------------------------------------
\* coordinate_mpic with the order of completion of the remote calls observed
\* ------------------------------------------------------------------------
\* a call completes in this step while a call started before it is pending
CompletesOutOfOrder ==
    /\ pc = "gather"
    /\ \E i \in 1..Len(tasks) :
           /\ tasks[i].state = "pending"
           /\ tasks'[i].state # "pending"
           /\ \E j \in 1..(i - 1) : tasks'[j].state = "pending"

\* the history variable: reset when the calls of an attempt are started, set
\* once a call of the attempt completes before a call started earlier
ObserveOrder ==
    out_of_order' = IF pc = "loop" /\ pc' = "gather"
                    THEN FALSE
                    ELSE out_of_order \/ CompletesOutOfOrder

\* requests with and without counts, a quorum of 1 or of no int, and up to
\* three attempts
GatherRequests ==
    { Request(t, op) :
        t \in Targets,
        op \in {NoOrchestration} \cup
               { Orchestration(pcv, qcv, mav) :
                   pcv \in {None, IntV(1), IntV(2), IntV(3)},
                   qcv \in {None, StrV, IntV(1)},
                   mav \in {None, IntV(0), IntV(MaxAttemptsReq)} } }

\* lines 90-96 with the history variable reset
DispatchObserved == DispatchAttempt /\ ObserveOrder

\* one remote call returns or raises, the order of completion observed
RemoteStepObserved ==
    \E i \in 1..Len(tasks) :
        \/ \E reply \in RemoteReplies(target_perspectives, perspectives_to_use[i]) :
               RemoteReturns(i, reply) /\ ObserveOrder
        \/ RemoteRaises(i) /\ ObserveOrder

\* coordinate_mpic with the steps that start or complete remote calls observed
CoordinateMpicObserved(requests) ==
    \/ \E request \in requests : RaiseValidationError(request)
    \/ \E request \in requests : RaiseFromCohortCreation(request)
    \/ \E request \in requests : StartAttempts(request)
    \/ DispatchObserved
    \/ RaiseFromEmptyCycle
    \/ FallOutOfLoop
    \/ RemoteStepObserved
    \/ RaiseFromQuorumComparison
    \/ ReturnResponse
    \/ RetryAttempt

NextGather == CoordinateMpicObserved(GatherRequests)

SpecGather == Init /\ [][NextGather]_vars

\* ------------------------------------------------------------------------
\* coordinate_mpic with more attempts than cohorts
\* ------------------------------------------------------------------------
\* four perspectives in two RIRs: two cohorts of two
PerspectivesFour ==
    <<Perspective("p1", "rir1"), Perspective("p2", "rir1"),
      Perspective("p3", "rir2"), Perspective("p4", "rir2")>>

CycleConfigurations ==
    Configurations \cup {Configuration(PerspectivesFour, 2, None, Secret)}

InitCycle ==
    /\ Configured(CycleConfigurations)
    /\ IdleRun
    /\ earlier_runs = <<>>
    /\ CheckersIdle

\* requests for one attempt with the default count, a count of 1 (rejected) or
\* of 3, and requests for the default count with no attempt or as many as a
\* request may ask for
CycleRequests ==
    { Request(t, op) :
        t \in Targets,
        op \in {NoOrchestration}
               \cup { Orchestration(pcv, qcv, None) :
                        pcv \in {None, IntV(1), IntV(3)}, qcv \in {None, StrV} }
               \cup { Orchestration(None, None, mav) :
                        mav \in {IntV(0), IntV(MaxAttemptsReq)} } }

NextCycle == CoordinateMpic(CycleRequests)

SpecCycle == InitCycle /\ [][NextCycle]_vars

\* ------------------------------------------------------------------------
\* coordinate_mpic with six perspectives
\* ------------------------------------------------------------------------
\* six perspectives in three RIRs
PerspectivesSix ==
    <<Perspective("p1", "rir1"), Perspective("p2", "rir1"), Perspective("p3", "rir2"),
      Perspective("p4", "rir2"), Perspective("p5", "rir3"), Perspective("p6", "rir3")>>

\* the configurations above, and one with six perspectives, all of them used
\* by default, and one attempt at most
QuorumConfigurations ==
    Configurations \cup {Configuration(PerspectivesSix, 6, IntV(1), Secret)}

InitQuorum ==
    /\ Configured(QuorumConfigurations)
    /\ IdleRun
    /\ earlier_runs = <<>>
    /\ CheckersIdle

\* requests with the default count or a count of 3, with no quorum, a quorum
\* of 1 or 5 or one that is no int, and with no max_attempts or as many as a
\* request may ask for
QuorumRequests ==
    { Request(t, op) :
        t \in Targets,
        op \in {NoOrchestration}
               \cup { Orchestration(pcv, qcv, mav) :
                        pcv \in {None, IntV(3)}, qcv \in {None, StrV, IntV(1), IntV(5)},
                        mav \in {None, IntV(MaxAttemptsReq)} } }

NextQuorum == CoordinateMpic(QuorumRequests)

SpecQuorum == InitQuorum /\ [][NextQuorum]_vars

\* ------------------------------------------------------------------------
\* The validator on its own, over a wider range of counts
\* ------------------------------------------------------------------------
\* n known perspectives
KnownPerspectives(n) == [i \in 1..n |-> Perspective(ToString(i), "rir1")]

ValidatorRequests ==
    { Request(<<97>>, op) : op \in OrchestrationValues(MaxCountVal, 0) }

InitValidator ==
    /\ \E n \in 0..MaxKnown : target_perspectives = KnownPerspectives(n)
    /\ default_perspective_count = 2
    /\ global_max_attempts = None
    /\ hash_secret = Secret
    /\ mpic_request \in ValidatorRequests
    /\ pc = "validate"
    /\ IdleLocals
    /\ earlier_runs = <<>>
    /\ CheckersIdle

\* MpicRequestValidator.is_request_valid(mpic_request, target_perspectives)
ValidateRequest ==
    /\ pc = "validate"
    /\ pc' = "validated"
    /\ validation' = is_request_valid(mpic_request, target_perspectives)
    /\ UNCHANGED <<configVars, checkerVars, error, mpic_request, perspective_count, quorum_count, max_attempts,
                   attempts, previous_attempt_results, perspective_cohorts, cohort_cycle,
                   perspectives_to_use, tasks, out_of_order, response, dispatched, attempt_log, earlier_runs>>

NextValidator == ValidateRequest

SpecValidator == InitValidator /\ [][NextValidator]_vars


\* ------------------------------------------------------------------------
\* Cohort construction on its own, over every perspective list
\* ------------------------------------------------------------------------
Rirs == {"rir1", "rir2", "rir3"}

\* every list of n perspectives over the RIRs
PerspectiveLists(n) ==
    { [i \in 1..n |-> Perspective(ToString(i), rirs[i])] : rirs \in [1..n -> Rirs] }

\* the targets "ba", "Ba", "bb" and "\"ub"
CohortTargets == { <<98, 97>>, <<66, 97>>, <<98, 98>>, <<252, 98>> }

InitCohorts ==
    /\ \E n \in 0..MaxPerspectives : target_perspectives \in PerspectiveLists(n)
    /\ default_perspective_count = 2
    /\ global_max_attempts = None
    /\ hash_secret = Secret
    /\ \E t \in CohortTargets : mpic_request = Request(t, NoOrchestration)
    /\ pc = "create"
    /\ error = "none"
    /\ validation = NotValidated
    /\ perspective_count \in 1..MaxCohortSize
    /\ quorum_count = None
    /\ max_attempts = 0
    /\ attempts = 0
    /\ previous_attempt_results = NoPreviousAttempts
    /\ perspective_cohorts = <<>>
    /\ cohort_cycle = 0
    /\ perspectives_to_use = <<>>
    /\ tasks = <<>>
    /\ out_of_order = FALSE
    /\ response = NoResponse
    /\ dispatched = <<>>
    /\ attempt_log = <<>>
    /\ earlier_runs = <<>>
    /\ CheckersIdle

\* self.create_cohorts_of_randomly_selected_perspectives(target_perspectives, cohort_size, target)
CreateCohorts ==
    /\ pc = "create"
    /\ \/ /\ CohortSizeTooLarge(target_perspectives, perspective_count)
          /\ Raise("ValueError")
          /\ UNCHANGED perspective_cohorts
       \/ /\ ~CohortSizeTooLarge(target_perspectives, perspective_count)
          /\ SeedNotEncodable(hash_secret, mpic_request.domain_or_ip_target)
          /\ Raise("UnicodeEncodeError")
          /\ UNCHANGED perspective_cohorts
       \/ /\ ~CohortSizeTooLarge(target_perspectives, perspective_count)
          /\ ~SeedNotEncodable(hash_secret, mpic_request.domain_or_ip_target)
          /\ pc' = "created"
          /\ perspective_cohorts' = create_cohorts_of_randomly_selected_perspectives(
                                        hash_secret, target_perspectives, perspective_count,
                                        mpic_request.domain_or_ip_target)
          /\ UNCHANGED error
    /\ UNCHANGED <<configVars, checkerVars, mpic_request, validation, perspective_count, quorum_count,
                   max_attempts, attempts, previous_attempt_results, cohort_cycle,
                   perspectives_to_use, tasks, out_of_order, response, dispatched, attempt_log, earlier_runs>>

NextCohorts == CreateCohorts

SpecCohorts == InitCohorts /\ [][NextCohorts]_vars

\* ------------------------------------------------------------------------
\* check_caa
\* ------------------------------------------------------------------------
\* the targets "w.b.c", "*.b.c", "b.c" and "\"u.c"
CaaTargets ==
    { <<119, 46, 98, 46, 99>>, <<42, 46, 98, 46, 99>>, <<98, 46, 99>>, <<252, 46, 99>> }

\* caa_check_parameters: None, or parameters whose caa_domains is None, empty or ["b.ca"]
CaaCheckParameterValues ==
    { None, Some([caa_domains |-> None]), Some([caa_domains |-> Some(<<>>)]),
      Some([caa_domains |-> Some(<< <<98, 46, 99, 97>> >>)]) }

CaaRequests ==
    { CaaCheckRequest(t, params) : t \in CaaTargets, params \in CaaCheckParameterValues }

\* the resource records a zone may hold: issue and issuewild for "a.ca" and
\* "b.ca", an issue value that does not parse ("a.ca;k"), a critical issue,
\* the tag written "Issue", iodef and the unknown tag "foo" with and without
\* the critical bit
CaaRecords ==
    { CaaRecord(0, ISSUE_TAG, <<97, 46, 99, 97>>),
      CaaRecord(0, ISSUE_TAG, <<98, 46, 99, 97>>),
      CaaRecord(0, ISSUE_TAG, <<97, 46, 99, 97, 59, 107>>),
      CaaRecord(128, ISSUE_TAG, <<97, 46, 99, 97>>),
      CaaRecord(0, <<73, 115, 115, 117, 101>>, <<98, 46, 99, 97>>),
      CaaRecord(0, ISSUEWILD_TAG, <<97, 46, 99, 97>>),
      CaaRecord(0, ISSUEWILD_TAG, <<98, 46, 99, 97>>),
      CaaRecord(0, IODEF_TAG, <<109>>),
      CaaRecord(128, IODEF_TAG, <<109>>),
      CaaRecord(1, <<102, 111, 111>>, <<109>>),
      CaaRecord(128, <<102, 111, 111>>, <<109>>) }

\* the record sets of one to n records
RecordSets(n) == UNION { [1..k -> CaaRecords] : k \in 1..n }

\* the exceptions of dns.asyncresolver.resolve
ResolverExceptions == {"NoAnswer", "NXDOMAIN", "Timeout", "NoNameservers"}

\* lines 48-52 taking a resolver without name servers for an empty answer
lookup_continues_also_without_nameservers(exception) ==
    exception \in {"NoAnswer", "NXDOMAIN", "NoNameservers"}

\* lines 48-52: the walk goes on to the parent after this exception; after any
\* other one MpicCaaLookupException is raised
lookup_continues_at_parent(exception) == exception \in {"NoAnswer", "NXDOMAIN"}

CAA_LOOKUP_ERROR == [error_type |-> "CAA_LOOKUP_ERROR", error_message |-> "CAA_LOOKUP_ERROR.message"]

\* a failed lookup taken for the absence of CAA records, the error still reported
caa_lookup_error_response_passing ==
    CaaCheckResponse(TRUE, Some(<<CAA_LOOKUP_ERROR>>), Some(FALSE), None, None, time_ns)

\* lines 95-102
caa_lookup_error_response ==
    CaaCheckResponse(FALSE, Some(<<CAA_LOOKUP_ERROR>>), None, None, None, time_ns)

\* lines 103-107
caa_not_found_response ==
    CaaCheckResponse(TRUE, None, Some(FALSE), None, None, time_ns)

\* lines 108-114 reporting the name the walk started from
caa_found_response_at_target(caa_domains_, is_wc_domain_, rrset_, domain_) ==
    CaaCheckResponse(is_valid_for_issuance(caa_domains_, is_wc_domain_, rrset_), None, Some(TRUE),
                     Some(caa_request.domain_or_ip_target),
                     Some([i \in 1..Len(rrset_) |-> caa_to_text(rrset_[i])]), time_ns)

\* lines 108-114
caa_found_response(caa_domains_, is_wc_domain_, rrset_, domain_) ==
    CaaCheckResponse(is_valid_for_issuance(caa_domains_, is_wc_domain_, rrset_), None, Some(TRUE),
                     Some(to_text_omit_final_dot(domain_)),
                     Some([i \in 1..Len(rrset_) |-> caa_to_text(rrset_[i])]), time_ns)

\* lines 61-65
resolve_caa_domains(request, default_list) ==
    IF ~IsNone(request.caa_check_parameters)
       /\ ~IsNone(request.caa_check_parameters.v.caa_domains)
       /\ Len(request.caa_check_parameters.v.caa_domains.v) > 0
    THEN request.caa_check_parameters.v.caa_domains.v
    ELSE default_list

\* lines 62-70
resolve_is_wc_domain(request) ==
    /\ ~IsNone(request.caa_check_parameters)
    /\ StartsWith(request.domain_or_ip_target, <<42, 46>>)

\* one query of the walk: the name asked, and the record set or the exception that came back
CaaQuery(name, outcome, records) == [name |-> name, outcome |-> outcome, records |-> records]

\* lines 58-90: check_caa up to the first query of the walk (or to its return,
\* for a target that is the root)
CheckCaaStart(request) ==
    LET target == prepare_target_for_lookup(request.domain_or_ip_target)
    IN  /\ caa_pc = "idle"
        /\ caa_request' = [request EXCEPT !.domain_or_ip_target = target]
        /\ caa_domains' = resolve_caa_domains(request, default_caa_domain_list)
        /\ is_wc_domain' = resolve_is_wc_domain(request)
        /\ domain' = from_text(target)
        /\ rrset' = None
        /\ IF from_text(target) = root
           THEN caa_pc' = "returned" /\ caa_check_response' = caa_not_found_response
           ELSE caa_pc' = "lookup" /\ caa_check_response' = EmptyCaaCheckResponse
        /\ UNCHANGED <<default_caa_domain_list, caa_queries, value_list, issuance_permitted>>

\* lines 45-47, 91, 108-118: the query returns a record set
CaaLookupAnswers(records) ==
    /\ caa_pc = "lookup"
    /\ caa_queries' = Append(caa_queries, CaaQuery(domain, "answer", records))
    /\ rrset' = Some(records)
    /\ caa_check_response' = caa_found_response(caa_domains, is_wc_domain, records, domain)
    /\ caa_pc' = "returned"
    /\ UNCHANGED <<default_caa_domain_list, caa_request, caa_domains, is_wc_domain, domain,
                   value_list, issuance_permitted>>

\* lines 48-49, 43, 103-118: NoAnswer or NXDOMAIN, the walk moves to the parent
CaaLookupMovesToParent(exception) ==
    /\ caa_pc = "lookup"
    /\ lookup_continues_at_parent(exception)
    /\ caa_queries' = Append(caa_queries, CaaQuery(domain, exception, <<>>))
    /\ domain' = parent(domain)
    /\ IF parent(domain) = root
       THEN caa_pc' = "returned" /\ caa_check_response' = caa_not_found_response
       ELSE UNCHANGED <<caa_pc, caa_check_response>>
    /\ UNCHANGED <<default_caa_domain_list, caa_request, caa_domains, is_wc_domain, rrset,
                   value_list, issuance_permitted>>

\* lines 50-52, 92-102, 114-118: any other exception ends the walk
CaaLookupFails(exception) ==
    /\ caa_pc = "lookup"
    /\ ~lookup_continues_at_parent(exception)
    /\ caa_queries' = Append(caa_queries, CaaQuery(domain, exception, <<>>))
    /\ caa_check_response' = caa_lookup_error_response
    /\ caa_pc' = "returned"
    /\ UNCHANGED <<default_caa_domain_list, caa_request, caa_domains, is_wc_domain, domain, rrset,
                   value_list, issuance_permitted>>

CheckCaa(requests, recordSets) ==
    /\ \/ \E request \in requests : CheckCaaStart(request)
       \/ \E records \in recordSets : CaaLookupAnswers(records)
       \/ \E exception \in ResolverExceptions : CaaLookupMovesToParent(exception)
       \/ \E exception \in ResolverExceptions : CaaLookupFails(exception)
    /\ UNCHANGED <<configVars, runVars, earlier_runs, dcvVars>>

InitCaa ==
    /\ Configured({Configuration(PerspectivesPair, 2, None, Secret)})
    /\ IdleRun
    /\ earlier_runs = <<>>
    /\ CaaIdle
    /\ DcvIdle

NextCaa == CheckCaa(CaaRequests, RecordSets(MaxRecords))

SpecCaa == InitCaa /\ [][NextCaa]_vars

\* ------------------------------------------------------------------------
\* do_caa_values_permit_issuance on its own, over lists of values
\* ------------------------------------------------------------------------
\* values that parse: "a.ca", "b.ca", "A.ca", "", ";", " a.ca ;", "a.ca;k=v", "a.ca; k=v=w"
WellFormedCaaValues ==
    { <<97, 46, 99, 97>>, <<98, 46, 99, 97>>, <<65, 46, 99, 97>>, <<>>, <<59>>,
      <<32, 97, 46, 99, 97, 32, 59>>,
      <<97, 46, 99, 97, 59, 107, 61, 118>>,
      <<97, 46, 99, 97, 59, 32, 107, 61, 118, 61, 119>> }

\* values that do not: "a.ca;k", "a.ca;-k=v", "a.ca;k=v v", "a.ca;k=v;", "a..ca", "-a.ca"
MalformedCaaValues ==
    { <<97, 46, 99, 97, 59, 107>>,
      <<97, 46, 99, 97, 59, 45, 107, 61, 118>>,
      <<97, 46, 99, 97, 59, 107, 61, 118, 32, 118>>,
      <<97, 46, 99, 97, 59, 107, 61, 118, 59>>,
      <<97, 46, 46, 99, 97>>,
      <<45, 97, 46, 99, 97>> }

CaaValues == WellFormedCaaValues \cup MalformedCaaValues

\* the value lists of up to n values
ValueLists(n) == UNION { [1..k -> CaaValues] : k \in 0..n }

\* the configured lists: none, "a.ca", "b.ca", and both
CaaDomainLists ==
    { <<>>, << <<97, 46, 99, 97>> >>, << <<98, 46, 99, 97>> >>,
      << <<97, 46, 99, 97>>, <<98, 46, 99, 97>> >> }

InitCaaValues ==
    /\ Configured({Configuration(PerspectivesPair, 2, None, Secret)})
    /\ IdleRun
    /\ earlier_runs = <<>>
    /\ default_caa_domain_list = DefaultCaaDomainList
    /\ caa_pc = "values"
    /\ caa_request = NoCaaRequest
    /\ caa_domains \in CaaDomainLists
    /\ is_wc_domain = FALSE
    /\ domain = root
    /\ rrset = None
    /\ caa_check_response = EmptyCaaCheckResponse
    /\ caa_queries = <<>>
    /\ value_list \in ValueLists(MaxValues)
    /\ issuance_permitted = None
    /\ DcvIdle

\* MpicCaaChecker.do_caa_values_permit_issuance(value_list, caa_domains)
EvaluateCaaValues ==
    /\ caa_pc = "values"
    /\ caa_pc' = "evaluated"
    /\ issuance_permitted' = Some(do_caa_values_permit_issuance(value_list, caa_domains))
    /\ UNCHANGED <<configVars, runVars, earlier_runs, dcvVars, default_caa_domain_list, caa_request,
                   caa_domains, is_wc_domain, domain, rrset, caa_check_response, caa_queries, value_list>>

NextCaaValues == EvaluateCaaValues

SpecCaaValues == InitCaaValues /\ [][NextCaaValues]_vars

\* ------------------------------------------------------------------------
\* check_dcv, HTTP-based methods
\* ------------------------------------------------------------------------
\* the targets "b.c" and "\"u.c"
DcvTargets == { <<98, 46, 99>>, <<252, 46, 99>> }

\* match_regex: None, "", "^ab", "b[0-9]*$" and "(" (which does not compile)
MatchRegexValues == { None, Some(<<>>), Some(<<94, 97, 98>>), Some(<<98, 91, 48, 45, 57, 93, 42, 36>>), Some(<<40>>) }

\* WEBSITE_CHANGE for the challenge value "ab", ACME_HTTP_01 for the key authorization "ab"
DcvHttpRequests ==
    { DcvCheckRequest(<<98, 46, 99>>, WebsiteChangeParameters(<<97, 98>>, match_regex, url_scheme, <<112>>)) :
        match_regex \in MatchRegexValues, url_scheme \in { <<104, 116, 116, 112, 115>>, <<104, 116, 116, 112>> } }
    \cup { DcvCheckRequest(t, AcmeHttp01Parameters(<<97, 98>>, <<116>>)) : t \in DcvTargets }

\* bodies: "ab", " ab\n", "xabx", "xab1", "ab" and 98 spaces and "x", 99 spaces
\* and "ab", the empty body, u-diaeresis in UTF-8, and a byte that is no UTF-8
HttpBodies ==
    { <<97, 98>>, <<32, 97, 98, 10>>, <<120, 97, 98, 120>>, <<120, 97, 98, 49>>,
      <<97, 98>> \o Spaces(MinBytesToRead - 2) \o <<120>>,
      Spaces(MinBytesToRead - 1) \o <<97, 98>>,
      <<>>, <<195, 188>>, <<255>> }

\* the redirect a response may have followed
Redirect == [status |-> 301, location |-> "redirected-1"]

\* the responses to the GET: 200 with each body wholly at hand, 200 with the
\* first byte of "ab" at hand only, 200 after a redirect, and 404
HttpResponses ==
    { HttpResponse(200, "OK", <<>>, body, Len(body)) : body \in HttpBodies }
    \cup { HttpResponse(200, "OK", <<>>, <<97, 98>>, 1),
           HttpResponse(200, "OK", <<Redirect>>, <<97, 98>>, 2),
           HttpResponse(404, "Not Found", <<>>, <<97, 98>>, 2) }

\* exceptions of the GET and of the read of the body
HttpExceptions == {"ClientConnectionError", "ClientPayloadError", "TimeoutError"}

\* the states a checker is in when check_dcv is called: without reuse; with
\* reuse before any check, after a check in the same or in another loop, and
\* after shutdown
DcvCheckerStates ==
    { [reuse |-> FALSE, client |-> None, loop |-> None, clients |-> <<>>],
      [reuse |-> TRUE, client |-> None, loop |-> None, clients |-> <<>>],
      [reuse |-> TRUE, client |-> Some(1), loop |-> Some("loop1"), clients |-> <<HttpClient(FALSE, "loop1")>>],
      [reuse |-> TRUE, client |-> Some(1), loop |-> Some("loop2"), clients |-> <<HttpClient(FALSE, "loop2")>>],
      [reuse |-> TRUE, client |-> None, loop |-> Some("loop1"), clients |-> <<HttpClient(TRUE, "loop1")>>] }

\* lines 47-50 without the comparison of the loops
needs_new_client_whatever_the_loop(loop) ==
    \/ IsNone(async_http_client)
    \/ http_clients[async_http_client.v].closed

\* lines 47-50: a new client is needed
needs_new_client(loop) ==
    \/ IsNone(async_http_client)
    \/ http_clients[async_http_client.v].closed
    \/ http_client_loop # Some(loop)

\* lines 54-55: the clients after the client referenced, if open, is closed
clients_after_close_of_current ==
    IF ~IsNone(async_http_client) /\ ~http_clients[async_http_client.v].closed
    THEN [http_clients EXCEPT ![async_http_client.v].closed = TRUE]
    ELSE http_clients

\* lines 40-70, entering the context: the client the check is handed
EnterHttpClient(loop) ==
    IF reuse_http_client
    THEN IF needs_new_client(loop)
         THEN /\ http_clients' = Append(clients_after_close_of_current, HttpClient(FALSE, loop))
              /\ async_http_client' = Some(Len(http_clients) + 1)
              /\ http_client_loop' = Some(loop)
              /\ http_client' = Len(http_clients) + 1
         ELSE /\ http_client' = async_http_client.v
              /\ UNCHANGED <<http_clients, async_http_client, http_client_loop>>
    ELSE /\ http_clients' = Append(http_clients, HttpClient(FALSE, loop))
         /\ http_client' = Len(http_clients) + 1
         /\ UNCHANGED <<async_http_client, http_client_loop>>

\* lines 63-70 leaving the client open when the check ends
LeaveHttpClientOpen ==
    /\ UNCHANGED <<reuse_http_client, async_http_client, http_client_loop, http_client, http_clients>>

\* lines 62-70, leaving the context: a client of this check alone is closed
LeaveHttpClient ==
    /\ http_clients' = IF reuse_http_client THEN http_clients
                       ELSE [http_clients EXCEPT ![http_client].closed = TRUE]
    /\ UNCHANGED <<reuse_http_client, async_http_client, http_client_loop, http_client>>

\* lines 83-94, 157-178: check_dcv up to the GET
CheckDcvStart(request, loop) ==
    /\ dcv_pc = "idle"
    /\ request.dcv_check_parameters.validation_method \in {"WEBSITE_CHANGE", "ACME_HTTP_01"}
    /\ dcv_request' = [request EXCEPT !.domain_or_ip_target = prepare_target_for_lookup(request.domain_or_ip_target)]
    /\ current_loop' = loop
    /\ dcv_check_response' = create_empty_check_response(request.dcv_check_parameters.validation_method)
    /\ EnterHttpClient(loop)
    /\ dcv_pc' = "get"
    /\ timestamp_writes' = <<>>
    /\ UNCHANGED <<reuse_http_client, dcv_error, lookup_response, content, dnsLocals>>

\* lines 178-185, 204-215, 239-242: the response arrives; any status but 200 ends the check
HttpGetResponds(http_response) ==
    /\ dcv_pc = "get"
    /\ lookup_response' = http_response
    /\ IF http_response.status = 200
       THEN /\ dcv_pc' = "read"
            /\ dcv_check_response' = [dcv_check_response EXCEPT !.timestamp_ns = time_ns]
            /\ UNCHANGED <<reuse_http_client, async_http_client, http_client_loop, http_client, http_clients>>
       ELSE /\ dcv_pc' = "returned"
            /\ dcv_check_response' = http_status_error_response(http_response)
            /\ LeaveHttpClient
    /\ timestamp_writes' = Append(timestamp_writes, dcv_pc')
    /\ UNCHANGED <<dcv_error, dcv_request, current_loop, content, dnsLocals>>

\* lines 182-185: an exception ends the check, as a response if the except clause names it
HttpRaises(exception) ==
    /\ dcv_pc \in {"get", "read"}
    /\ \/ /\ is_client_error(exception)
          /\ dcv_pc' = "returned"
          /\ dcv_check_response' = [http_exception_response(exception)
                                       EXCEPT !.details = dcv_check_response.details]
          /\ timestamp_writes' = Append(timestamp_writes, "returned")
          /\ UNCHANGED dcv_error
       \/ /\ ~is_client_error(exception)
          /\ dcv_pc' = "raised"
          /\ dcv_error' = exception
          /\ UNCHANGED <<dcv_check_response, timestamp_writes>>
    /\ LeaveHttpClient
    /\ UNCHANGED <<dcv_request, current_loop, lookup_response, content, dnsLocals>>

\* lines 217-238: the bytes at hand are read, decoded and matched
HttpBodyRead ==
    LET content_ == content_read(lookup_response, expected_response_content_of(dcv_request))
    IN  /\ dcv_pc = "read"
        /\ content' = content_
        /\ \/ /\ utf8_decode(content_).raised
              /\ dcv_pc' = "raised"
              /\ dcv_error' = "UnicodeDecodeError"
              /\ UNCHANGED dcv_check_response
           \/ /\ ~utf8_decode(content_).raised
              /\ regex_search_raises(dcv_request.dcv_check_parameters.validation_method,
                                     dcv_request.dcv_check_parameters.match_regex)
              /\ dcv_pc' = "raised"
              /\ dcv_error' = "re.error"
              /\ dcv_check_response' =
                     [dcv_check_response EXCEPT
                         !.check_passed = IsSubstring(expected_response_content_of(dcv_request),
                                                      Strip(utf8_decode(content_).text))]
           \/ /\ ~utf8_decode(content_).raised
              /\ ~regex_search_raises(dcv_request.dcv_check_parameters.validation_method,
                                      dcv_request.dcv_check_parameters.match_regex)
              /\ dcv_pc' = "returned"
              /\ dcv_check_response' = http_ok_response(dcv_request, lookup_response, content_)
              /\ UNCHANGED dcv_error
        /\ LeaveHttpClient
        /\ UNCHANGED <<dcv_request, current_loop, lookup_response, dnsLocals, timestamp_writes>>

CheckDcvHttp(requests) ==
    /\ \/ \E request \in requests, loop \in {"loop1"} : CheckDcvStart(request, loop)
       \/ \E http_response \in HttpResponses : HttpGetResponds(http_response)
       \/ \E exception \in HttpExceptions : HttpRaises(exception)
       \/ HttpBodyRead
    /\ UNCHANGED <<configVars, runVars, earlier_runs, caaVars, client_tasks>>

InitDcvHttp ==
    /\ Configured({Configuration(PerspectivesPair, 2, None, Secret)})
    /\ IdleRun
    /\ earlier_runs = <<>>
    /\ CaaIdle
    /\ \E checker \in DcvCheckerStates :
           /\ reuse_http_client = checker.reuse
           /\ async_http_client = checker.client
           /\ http_client_loop = checker.loop
           /\ http_clients = checker.clients
    /\ DcvCallIdle

NextDcvHttp == CheckDcvHttp(DcvHttpRequests)

SpecDcvHttp == InitDcvHttp /\ [][NextDcvHttp]_vars

\* ------------------------------------------------------------------------
\* check_dcv, DNS-based methods
\* ------------------------------------------------------------------------
\* the prefixes: none, and "_p"
DnsNamePrefixes == { None, Some(<<95, 112>>) }

\* DNS_CHANGE over TXT, CNAME and CAA records, ACME_DNS_01, IP_LOOKUP, and the
\* contact methods over CAA and TXT records; the expected content is "ab",
\* "Ab." for CNAME records also, and "1.2" for addresses
DcvDnsRequests ==
    { DcvCheckRequest(<<98, 46, 99>>, DnsCheckParameters("DNS_CHANGE", "TXT", prefix, <<97, 98>>, <<>>, exact)) :
        prefix \in DnsNamePrefixes, exact \in BOOLEAN }
    \cup { DcvCheckRequest(<<98, 46, 99>>, DnsCheckParameters("DNS_CHANGE", "CNAME", None, challenge, <<>>, exact)) :
             challenge \in { <<97, 98>>, <<65, 98, 46>> }, exact \in BOOLEAN }
    \cup { DcvCheckRequest(<<98, 46, 99>>, DnsCheckParameters("DNS_CHANGE", "CAA", None, <<97, 98>>, <<>>, exact)) :
             exact \in BOOLEAN }
    \cup { DcvCheckRequest(<<252, 46, 99>>, DnsCheckParameters("ACME_DNS_01", "TXT", Some(<<95, 112>>), <<>>, <<97, 98>>, exact)) :
             exact \in BOOLEAN }
    \cup { DcvCheckRequest(<<98, 46, 99>>, DnsCheckParameters("IP_LOOKUP", "A", None, <<49, 46, 50>>, <<>>, exact)) :
             exact \in BOOLEAN }
    \cup { DcvCheckRequest(target, DnsCheckParameters(method, "CAA", None, <<97, 98>>, <<>>, exact)) :
             target \in { <<98, 46, 99>>, <<119, 46, 98, 46, 99>> },
             method \in {"CONTACT_EMAIL", "CONTACT_PHONE"}, exact \in BOOLEAN }
    \cup { DcvCheckRequest(<<98, 46, 99>>, DnsCheckParameters(method, "TXT", Some(<<95, 112>>), <<97, 98>>, <<>>, exact)) :
             method \in {"CONTACT_EMAIL", "CONTACT_PHONE"}, exact \in BOOLEAN }

\* TXT "ab", "xabx", "AB", the two strings "a" and "b", and the empty string;
\* CNAME aB and xab; A 1.2 and 1.23; CAA contactemail, ContactEmail,
\* contactphone and issue with the value "ab", contactemail with "xabx" and
\* contactphone with the empty value
DnsRecords(dns_record_type) ==
    CASE dns_record_type = "TXT" ->
             { TxtRecord(<< <<97, 98>> >>), TxtRecord(<< <<120, 97, 98, 120>> >>), TxtRecord(<< <<65, 66>> >>),
               TxtRecord(<< <<97>>, <<98>> >>), TxtRecord(<< <<>> >>) }
      [] dns_record_type = "CNAME" -> { CnameRecord(<<97, 66>>), CnameRecord(<<120, 97, 98>>) }
      [] dns_record_type = "A" -> { ARecord(<<49, 46, 50>>), ARecord(<<49, 46, 50, 51>>) }
      [] OTHER ->
             { CaaRdata(0, CONTACT_EMAIL_TAG, <<97, 98>>),
               CaaRdata(0, <<67>> \o Tail(CONTACT_EMAIL_TAG), <<97, 98>>),
               CaaRdata(0, CONTACT_PHONE_TAG, <<97, 98>>),
               CaaRdata(0, ISSUE_TAG, <<97, 98>>),
               CaaRdata(0, CONTACT_EMAIL_TAG, <<120, 97, 98, 120>>),
               CaaRdata(0, CONTACT_PHONE_TAG, <<>>) }

\* the answer sections to a query for a type: one RRset of up to n records of
\* the type, or such an RRset of one record behind the CNAME RRset of an alias
AnswerSections(dns_record_type, n) ==
    LET items == UNION { [1..k -> DnsRecords(dns_record_type)] : k \in 1..n }
    IN  { << RRset(dns_record_type, i) >> : i \in items }
        \cup { << RRset("CNAME", << CnameRecord(<<97, 98>>) >>), RRset(dns_record_type, i) >> :
                 i \in [1..1 -> DnsRecords(dns_record_type)] }

\* the resolver's exceptions, each with its msg
DnsExceptions ==
    { DnsException("NoAnswer", "NoAnswer.msg"), DnsException("NXDOMAIN", "NXDOMAIN.msg"),
      DnsException("LifetimeTimeout", "LifetimeTimeout.msg"), DnsException("NoNameservers", "NoNameservers.msg") }

\* lines 147-152 going up the tree after NoAnswer only
walk_continues_after_no_answer_only(exception) == exception.class = "NoAnswer"

\* lines 147-152: the walk goes on to the parent after this exception
walk_continues_at_parent(exception) == exception.class \in {"NoAnswer", "NXDOMAIN"}

\* one query: the name asked, and the answer or the exception that came back
DnsQuery(name, outcome) == [name |-> name, outcome |-> outcome]

\* the name of the query under way
QueriedName ==
    IF walk_domain_tree(dcv_request.dcv_check_parameters.validation_method,
                        dcv_request.dcv_check_parameters.dns_record_type)
    THEN dcv_domain
    ELSE from_text(name_to_resolve)

\* lines 83-96, 102-120, 138-149: check_dcv up to the first query (a walk that
\* starts at the root sends none, and the evaluation of no answer raises)
CheckDcvDnsStart(request) ==
    LET encoded == [request EXCEPT !.domain_or_ip_target = prepare_target_for_lookup(request.domain_or_ip_target)]
        walks == walk_domain_tree(request.dcv_check_parameters.validation_method,
                                  request.dcv_check_parameters.dns_record_type)
    IN  /\ dcv_pc = "idle"
        /\ request.dcv_check_parameters.validation_method \notin {"WEBSITE_CHANGE", "ACME_HTTP_01"}
        /\ dcv_request' = encoded
        /\ name_to_resolve' = name_to_resolve_of(encoded)
        /\ dcv_domain' = IF walks THEN from_text(name_to_resolve_of(encoded)) ELSE root
        /\ dcv_check_response' = create_empty_check_response(request.dcv_check_parameters.validation_method)
        /\ lookup' = None
        /\ dns_queries' = <<>>
        /\ timestamp_writes' = <<>>
        /\ IF walks /\ from_text(name_to_resolve_of(encoded)) = root
           THEN dcv_pc' = "raised" /\ dcv_error' = "AttributeError"
           ELSE dcv_pc' = "resolve" /\ UNCHANGED dcv_error
        /\ UNCHANGED <<reuse_http_client, async_http_client, http_client_loop, http_clients,
                       current_loop, http_client, lookup_response, content>>

\* lines 125-130, 149-155, 253-299: the query is answered and the answer evaluated
DnsLookupAnswers(rcode, ad, answer) ==
    LET lookup_ == DnsAnswer(QueriedName, rcode, ad, answer)
        validation_method == dcv_request.dcv_check_parameters.validation_method
        dns_record_type == dcv_request.dcv_check_parameters.dns_record_type
    IN  /\ dcv_pc = "resolve"
        /\ lookup' = Some(lookup_)
        /\ dns_queries' = Append(dns_queries, DnsQuery(QueriedName, "answer"))
        /\ \/ /\ raises_index_error(validation_method, dns_record_type, lookup_)
              /\ dcv_pc' = "raised"
              /\ dcv_error' = "IndexError"
              /\ UNCHANGED <<dcv_check_response, timestamp_writes>>
           \/ /\ ~raises_index_error(validation_method, dns_record_type, lookup_)
              /\ dcv_pc' = "returned"
              /\ dcv_check_response' = dns_answer_response(dcv_request, lookup_)
              /\ timestamp_writes' = Append(timestamp_writes, "returned")
              /\ UNCHANGED dcv_error
        /\ UNCHANGED <<reuse_http_client, async_http_client, http_client_loop, http_clients,
                       dcv_request, current_loop, http_client, lookup_response, content,
                       name_to_resolve, dcv_domain>>

\* lines 147-152, 128, 253: NoAnswer or NXDOMAIN during the walk; at the root the
\* walk ends without an answer, and the evaluation of None raises
DnsLookupMovesToParent(exception) ==
    /\ dcv_pc = "resolve"
    /\ walk_domain_tree(dcv_request.dcv_check_parameters.validation_method,
                        dcv_request.dcv_check_parameters.dns_record_type)
    /\ walk_continues_at_parent(exception)
    /\ dns_queries' = Append(dns_queries, DnsQuery(QueriedName, exception.class))
    /\ dcv_domain' = parent(dcv_domain)
    /\ IF parent(dcv_domain) = root
       THEN dcv_pc' = "raised" /\ dcv_error' = "AttributeError"
       ELSE UNCHANGED <<dcv_pc, dcv_error>>
    /\ UNCHANGED <<reuse_http_client, async_http_client, http_client_loop, http_clients,
                   dcv_request, current_loop, http_client, lookup_response, content, dcv_check_response,
                   name_to_resolve, lookup, timestamp_writes>>

\* lines 131-134: a DNSException that leaves perform_dns_resolution
DnsLookupFails(exception) ==
    /\ dcv_pc = "resolve"
    /\ ~ /\ walk_domain_tree(dcv_request.dcv_check_parameters.validation_method,
                             dcv_request.dcv_check_parameters.dns_record_type)
         /\ walk_continues_at_parent(exception)
    /\ dns_queries' = Append(dns_queries, DnsQuery(QueriedName, exception.class))
    /\ dcv_check_response' = [dns_exception_response(exception) EXCEPT !.details = dcv_check_response.details]
    /\ timestamp_writes' = Append(timestamp_writes, "returned")
    /\ dcv_pc' = "returned"
    /\ UNCHANGED <<reuse_http_client, async_http_client, http_client_loop, http_clients, dcv_error,
                   dcv_request, current_loop, http_client, lookup_response, content,
                   name_to_resolve, dcv_domain, lookup>>

CheckDcvDns(requests, n) ==
    /\ \/ \E request \in requests : CheckDcvDnsStart(request)
       \/ /\ dcv_pc = "resolve"
          /\ \E rcode \in {"NOERROR"}, ad \in BOOLEAN :
                 \E answer \in AnswerSections(dcv_request.dcv_check_parameters.dns_record_type, n) :
                     DnsLookupAnswers(rcode, ad, answer)
       \/ \E exception \in DnsExceptions : DnsLookupMovesToParent(exception)
       \/ \E exception \in DnsExceptions : DnsLookupFails(exception)
    /\ UNCHANGED <<configVars, runVars, earlier_runs, caaVars, client_tasks>>

InitDcvDns ==
    /\ Configured({Configuration(PerspectivesPair, 2, None, Secret)})
    /\ IdleRun
    /\ earlier_runs = <<>>
    /\ CheckersIdle

NextDcvDns == CheckDcvDns(DcvDnsRequests, MaxRecords)

SpecDcvDns == InitDcvDns /\ [][NextDcvDns]_vars

\* ------------------------------------------------------------------------
\* get_async_http_client and shutdown, over concurrent calls
\* ------------------------------------------------------------------------
\* the number of calls made on the checker
MaxCalls == 3

EventLoops == {"loop1", "loop2"}

\* a call: its kind (check, shutdown), its running loop, where it stands
\* (closing: suspended at the await of close(); using: inside the context;
\* done), the client the checker referenced when the call began and whether
\* the call could use it, the client it was handed, and how that client and
\* the one found stood at the moment of the handing
ClientTask(kind, loop, at, found, found_usable, client, handed, found_then) ==
    [kind |-> kind, loop |-> loop, pc |-> at, found |-> found, found_usable |-> found_usable,
     client |-> client, handed |-> handed, found_then |-> found_then]

\* the client as it stands in clients, or None for no client
ClientState(clients, client) == IF IsNone(client) THEN None ELSE Some(clients[client.v])

\* lines 57-62: a client is created in the loop, the checker references it, and the call is handed it
CreateSharedClient(task, clients) ==
    /\ http_clients' = Append(clients, HttpClient(FALSE, task.loop))
    /\ async_http_client' = Some(Len(clients) + 1)
    /\ http_client_loop' = Some(task.loop)

HandedShared(task, clients) ==
    [task EXCEPT !.pc = "using", !.client = Len(clients) + 1,
                 !.handed = Some(HttpClient(FALSE, task.loop)),
                 !.found_then = ClientState(clients, task.found)]

\* lines 41-67: check_dcv enters get_async_http_client, up to the await of
\* close() or up to the yield of the client
CheckEnters(loop) ==
    LET task == ClientTask("check", loop, "entering", async_http_client,
                           reuse_http_client /\ ~needs_new_client(loop), 0, None, None)
    IN  /\ Len(client_tasks) < MaxCalls
        /\ IF reuse_http_client
           THEN IF needs_new_client(loop)
                THEN IF ~IsNone(async_http_client) /\ ~http_clients[async_http_client.v].closed
                     THEN /\ http_clients' = clients_after_close_of_current
                          /\ client_tasks' = Append(client_tasks, [task EXCEPT !.pc = "closing"])
                          /\ UNCHANGED <<async_http_client, http_client_loop>>
                     ELSE /\ CreateSharedClient(task, http_clients)
                          /\ client_tasks' = Append(client_tasks, HandedShared(task, http_clients))
                ELSE /\ client_tasks' = Append(client_tasks,
                            [task EXCEPT !.pc = "using", !.client = async_http_client.v,
                                         !.handed = ClientState(http_clients, async_http_client),
                                         !.found_then = ClientState(http_clients, async_http_client)])
                     /\ UNCHANGED <<http_clients, async_http_client, http_client_loop>>
           ELSE /\ http_clients' = Append(http_clients, HttpClient(FALSE, loop))
                /\ client_tasks' = Append(client_tasks,
                       [task EXCEPT !.pc = "using", !.client = Len(http_clients) + 1,
                                    !.handed = Some(HttpClient(FALSE, loop))])
                /\ UNCHANGED <<async_http_client, http_client_loop>>
        /\ UNCHANGED reuse_http_client

\* lines 55-62: close() returns to the check that awaited it
CheckCloseReturns(i) ==
    /\ client_tasks[i].kind = "check"
    /\ client_tasks[i].pc = "closing"
    /\ CreateSharedClient(client_tasks[i], http_clients)
    /\ client_tasks' = [client_tasks EXCEPT ![i] = HandedShared(client_tasks[i], http_clients)]
    /\ UNCHANGED reuse_http_client

\* lines 62-70: the check leaves the context, by return or by exception
CheckLeaves(i) ==
    /\ client_tasks[i].kind = "check"
    /\ client_tasks[i].pc = "using"
    /\ client_tasks' = [client_tasks EXCEPT ![i].pc = "done"]
    /\ http_clients' = IF reuse_http_client THEN http_clients
                       ELSE [http_clients EXCEPT ![client_tasks[i].client].closed = TRUE]
    /\ UNCHANGED <<reuse_http_client, async_http_client, http_client_loop>>

\* lines 79-80: shutdown, up to the await of close()
ShutdownStarts ==
    LET task == ClientTask("shutdown", "none", "entering", async_http_client, FALSE, 0, None, None)
    IN  /\ Len(client_tasks) < MaxCalls
        /\ IF ~IsNone(async_http_client) /\ ~http_clients[async_http_client.v].closed
           THEN /\ http_clients' = clients_after_close_of_current
                /\ client_tasks' = Append(client_tasks, [task EXCEPT !.pc = "closing"])
           ELSE /\ client_tasks' = Append(client_tasks, [task EXCEPT !.pc = "done"])
                /\ UNCHANGED http_clients
        /\ UNCHANGED <<reuse_http_client, async_http_client, http_client_loop>>

\* lines 80-81: close() returns to the shutdown that awaited it
ShutdownCloseReturns(i) ==
    /\ client_tasks[i].kind = "shutdown"
    /\ client_tasks[i].pc = "closing"
    /\ async_http_client' = None
    /\ client_tasks' = [client_tasks EXCEPT ![i].pc = "done"]
    /\ UNCHANGED <<reuse_http_client, http_client_loop, http_clients>>

HttpClientCalls ==
    /\ \/ \E loop \in EventLoops : CheckEnters(loop)
       \/ \E i \in 1..Len(client_tasks) : CheckCloseReturns(i)
       \/ \E i \in 1..Len(client_tasks) : CheckLeaves(i)
       \/ ShutdownStarts
       \/ \E i \in 1..Len(client_tasks) : ShutdownCloseReturns(i)
    /\ UNCHANGED <<configVars, runVars, earlier_runs, caaVars, dcv_pc, dcv_error, dcv_request,
                   current_loop, http_client, lookup_response, content, dcv_check_response,
                   dnsLocals, timestamp_writes>>

\* lines 30-34: a checker just constructed, with or without client reuse
InitHttpClients ==
    /\ Configured({Configuration(PerspectivesPair, 2, None, Secret)})
    /\ IdleRun
    /\ earlier_runs = <<>>
    /\ CaaIdle
    /\ reuse_http_client \in BOOLEAN
    /\ async_http_client = None
    /\ http_client_loop = None
    /\ http_clients = <<>>
    /\ DcvCallIdle

NextHttpClients == HttpClientCalls

SpecHttpClients == InitHttpClients /\ [][NextHttpClients]_vars

\* ------------------------------------------------------------------------
\* check_dcv without client reuse, next to other checks on the same checker
\* ------------------------------------------------------------------------
\* lines 63-70: other HTTP-based checks enter and leave get_async_http_client
\* while the check followed step by step is under way
OtherChecks ==
    /\ \/ \E loop \in {"loop1"} : CheckEnters(loop)
       \/ \E i \in 1..Len(client_tasks) : CheckLeaves(i)
    /\ UNCHANGED <<configVars, runVars, earlier_runs, caaVars, dcv_pc, dcv_error, dcv_request,
                   current_loop, http_client, lookup_response, content, dcv_check_response,
                   dnsLocals, timestamp_writes>>

\* lines 30-34: a checker constructed with reuse_http_client=False
InitOwnClients ==
    /\ Configured({Configuration(PerspectivesPair, 2, None, Secret)})
    /\ IdleRun
    /\ earlier_runs = <<>>
    /\ CheckersIdle

NextOwnClients ==
    \/ CheckDcvHttp(DcvHttpRequests)
    \/ OtherChecks

SpecOwnClients == InitOwnClients /\ [][NextOwnClients]_vars

\* ------------------------------------------------------------------------
\* The three components, one operation at a time: the coordinator and the two
\* checkers are separate objects that share no state, so their operations are
\* taken from a state in which the other components are idle
\* ------------------------------------------------------------------------
CoordinatorIdle == pc = "idle"

CaaCheckerIdle == caa_pc = "idle"

DcvCheckerIdle == dcv_pc = "idle"

CoordinateMpicAlone ==
    /\ CaaCheckerIdle
    /\ DcvCheckerIdle
    /\ CoordinateMpic(GatherRequests)

\* check_caa over record sets of one record: with one record the lookup fails,
\* finds nothing, or finds a record that permits or forbids issuance
CheckCaaAlone ==
    /\ CoordinatorIdle
    /\ DcvCheckerIdle
    /\ CheckCaa(CaaRequests, RecordSets(1))

CheckDcvHttpAlone ==
    /\ CoordinatorIdle
    /\ CaaCheckerIdle
    /\ CheckDcvHttp(DcvHttpRequests)

CheckDcvDnsAlone ==
    /\ CoordinatorIdle
    /\ CaaCheckerIdle
    /\ CheckDcvDns(DcvDnsRequests, MaxRecords)

NextChecks ==
    \/ CoordinateMpicAlone
    \/ CheckCaaAlone
    \/ CheckDcvHttpAlone
    \/ CheckDcvDnsAlone

SpecChecks == Init /\ [][NextChecks]_vars

\* ------------------------------------------------------------------------
\* Properties of coordinate_mpic
\* ------------------------------------------------------------------------
Returned == response.kind = "MpicResponse"

LastAttempt == attempt_log[Len(attempt_log)]

\* the positions of an evaluated attempt whose response has check_passed true
PassingPositions(attempt) ==
    {i \in 1..Len(attempt.responses) : attempt.responses[i].check_passed}

QuorumMet(attempt, quorum) ==
    /\ Cardinality(PassingPositions(attempt)) >= quorum
    /\ Len(attempt.cohort) > 2 =>
           Cardinality({attempt.cohort[i].rir : i \in PassingPositions(attempt)}) >= 2

\* C1: every evaluated attempt is successful exactly when the perspectives of
\* its cohort whose check passed number at least quorum_count and, for a cohort
\* of more than two, span at least two RIRs; the response built from the last
\* attempt carries that verdict as is_valid.
C1_QuorumRule ==
    /\ \A k \in 1..Len(attempt_log) :
           attempt_log[k].is_valid_result <=> QuorumMet(attempt_log[k], quorum_count.v)
    /\ Returned => response.is_valid = LastAttempt.is_valid_result

\* a cohort of three reached the quorum count with passing perspectives of one
\* RIR only, and the response is not valid
C1_Witness ==
    /\ Returned
    /\ Len(LastAttempt.cohort) > 2
    /\ Cardinality(PassingPositions(LastAttempt)) >= quorum_count.v
    /\ ~response.is_valid

\* a cohort of two passed with one passing perspective
C1_WitnessPair ==
    /\ Returned
    /\ Len(LastAttempt.cohort) = 2
    /\ quorum_count.v = 1
    /\ Cardinality(PassingPositions(LastAttempt)) = 1
    /\ response.is_valid

\* C2: for a request the validator accepts, coordinate_mpic ends by returning
\* an MpicResponse whose perspective_count equals the length of its
\* perspectives list and the size of the cohort used.
C2_ReturnsResponse ==
    (validation.is_request_valid /\ pc \in {"returned", "raised"}) =>
        /\ Returned
        /\ response.actual_orchestration_parameters.perspective_count = Len(response.perspectives)
        /\ Len(response.perspectives) = Len(perspectives_to_use)

SyntheticResponse(perspective) ==
    CheckResponse(perspective.code, FALSE, <<"COORDINATOR_COMMUNICATION_ERROR">>)

\* the tasks of the attempt evaluated last are still those of `tasks`
AttemptEvaluated == pc \in {"loop", "returned"} /\ attempt_log # <<>>

C4_AttemptOrder ==
    /\ Len(dispatched) <= Len(attempt_log) + 1
    /\ Len(attempt_log) <= Len(dispatched)
    /\ \A k \in 1..(Len(dispatched) - 1) :
           /\ ~attempt_log[k].is_valid_result
           /\ k < max_attempts
    /\ Returned =>
           LET n == response.actual_orchestration_parameters.attempt_count
           IN  /\ Len(dispatched) = n
               /\ Len(attempt_log) = n
               /\ ~response.is_valid => n = max_attempts
               /\ response.is_valid =>
                      /\ attempt_log[n].is_valid_result
                      /\ \A j \in 1..(n - 1) : ~attempt_log[j].is_valid_result

\* a valid response was returned at the second of three attempts allowed
C4_Witness ==
    /\ Returned
    /\ response.is_valid
    /\ response.actual_orchestration_parameters.attempt_count = 2
    /\ max_attempts = 3

\* a response that is not valid was returned after the attempts allowed
C4_WitnessExhausted ==
    /\ Returned
    /\ ~response.is_valid
    /\ response.actual_orchestration_parameters.attempt_count = 2

\* C5: the perspectives list of a response holds exactly one CheckResponse for
\* each perspective of the final cohort, and its perspective_code values are
\* pairwise distinct.
C5_OneResponsePerPerspective ==
    Returned =>
        /\ Len(response.perspectives) = Len(perspectives_to_use)
        /\ \A i \in 1..Len(perspectives_to_use) :
               Cardinality({j \in 1..Len(response.perspectives) :
                               response.perspectives[j].perspective_code = perspectives_to_use[i].code}) = 1
        /\ \A i, j \in 1..Len(response.perspectives) :
               i # j => response.perspectives[i].perspective_code # response.perspectives[j].perspective_code

\* C6: previous_attempt_results is absent when attempt_count is 1; otherwise it
\* holds attempt_count - 1 lists, the i-th being the response list of the
\* failed attempt i, and the last attempt is not among them.
C6_PreviousAttempts ==
    Returned =>
        LET n == response.actual_orchestration_parameters.attempt_count
            previous == response.previous_attempt_results
        IN  /\ n = 1 => ~previous.present
            /\ n > 1 =>
                   /\ previous.present
                   /\ Len(previous.lists) = n - 1
                   /\ \A i \in 1..(n - 1) :
                          /\ previous.lists[i] = attempt_log[i].responses
                          /\ ~attempt_log[i].is_valid_result
            /\ Len(previous.lists) < Len(attempt_log)

\* a response after three attempts whose two earlier attempts differ
C6_Witness ==
    /\ Returned
    /\ response.actual_orchestration_parameters.attempt_count = 3
    /\ response.previous_attempt_results.lists[1] # response.previous_attempt_results.lists[2]

\* C9: a request with a validation issue makes coordinate_mpic raise the
\* validation error with the issue list; no cohort is built, no remote call
\* issued and no response returned for it.
C9_InvalidRequestRaises ==
    (mpic_request # NoRequest /\ request_validation_issues(mpic_request, target_perspectives) # <<>>) =>
        /\ pc = "raised"
        /\ error = "MpicRequestValidationError"
        /\ validation.validation_issues = request_validation_issues(mpic_request, target_perspectives)
        /\ perspective_cohorts = <<>>
        /\ dispatched = <<>>
        /\ tasks = <<>>
        /\ response = NoResponse

\* coordinate_mpic raised for a request whose quorum_count is out of range
C9_Witness ==
    /\ pc = "raised"
    /\ error = "MpicRequestValidationError"
    /\ \E i \in 1..Len(validation.validation_issues) :
           validation.validation_issues[i].issue_type = "INVALID_QUORUM_COUNT"

\* ------------------------------------------------------------------------
\* Properties of the validator
\* ------------------------------------------------------------------------
Validated == pc = "validated"

HasIssue(type) ==
    \E i \in 1..Len(validation.validation_issues) : validation.validation_issues[i].issue_type = type

RequestedPerspectiveCount == mpic_request.orchestration_parameters.perspective_count
RequestedQuorumCount == mpic_request.orchestration_parameters.quorum_count

PerspectiveCountGiven ==
    mpic_request.orchestration_parameters.present /\ ~IsNone(RequestedPerspectiveCount)

PerspectiveCountInRange ==
    /\ RequestedPerspectiveCount.t = "int"
    /\ RequestedPerspectiveCount.v \in 2..Len(target_perspectives)

\* C7: INVALID_PERSPECTIVE_COUNT is reported exactly when perspective_count is
\* given and is not an integer between 2 and the number of known perspectives;
\* a request without orchestration_parameters or without perspective_count
\* never gets it.
C7_PerspectiveCountIssue ==
    Validated =>
        /\ HasIssue("INVALID_PERSPECTIVE_COUNT") <=> (PerspectiveCountGiven /\ ~PerspectiveCountInRange)
        /\ ~PerspectiveCountGiven => ~HasIssue("INVALID_PERSPECTIVE_COUNT")

\* perspective_count 1 and the number of known perspectives plus one are both reported
C7_Witness ==
    /\ Validated
    /\ HasIssue("INVALID_PERSPECTIVE_COUNT")
    /\ RequestedPerspectiveCount.t = "int"
    /\ RequestedPerspectiveCount.v = 1
    /\ Len(target_perspectives) >= 2

QuorumCountInRange ==
    LET n == RequestedPerspectiveCount.v
        q == RequestedQuorumCount.v
    IN  /\ RequestedQuorumCount.t = "int"
        /\ q <= n
        /\ IF n <= 5 THEN n - 1 <= q ELSE n - 2 <= q

\* C8: with a valid perspective_count and a quorum_count given,
\* INVALID_QUORUM_COUNT is reported exactly when quorum_count is not an integer
\* in [perspective_count - 1, perspective_count] for perspective_count <= 5, or
\* in [perspective_count - 2, perspective_count] for perspective_count >= 6; the
\* boolean returned is true exactly when no issue is listed.
C8_QuorumCountIssue ==
    Validated =>
        /\ (PerspectiveCountGiven /\ PerspectiveCountInRange /\ ~IsNone(RequestedQuorumCount)) =>
               (HasIssue("INVALID_QUORUM_COUNT") <=> ~QuorumCountInRange)
        /\ validation.is_request_valid <=> (validation.validation_issues = <<>>)

\* six perspectives with quorum 4 are accepted
C8_Witness ==
    /\ Validated
    /\ PerspectiveCountGiven
    /\ RequestedPerspectiveCount = IntV(6)
    /\ RequestedQuorumCount = IntV(4)
    /\ validation.is_request_valid

\* five perspectives with quorum 3 are rejected
C8_WitnessRejected ==
    /\ Validated
    /\ RequestedPerspectiveCount = IntV(5)
    /\ RequestedQuorumCount = IntV(3)
    /\ HasIssue("INVALID_QUORUM_COUNT")

\* ------------------------------------------------------------------------
\* Two calls of coordinate_mpic on one coordinator
\* ------------------------------------------------------------------------
\* the targets "ba", "Ba", "bb" and "\"ub"
RunTargets == { <<98, 97>>, <<66, 97>>, <<98, 98>>, <<252, 98>> }

RunRequests ==
    { Request(t, op) :
        t \in RunTargets,
        op \in {NoOrchestration} \cup
               { Orchestration(pcv, qcv, mav) :
                   pcv \in {None, IntV(1), IntV(2), IntV(3)},
                   qcv \in {None, StrV},
                   mav \in {None, IntV(0), IntV(2)} } }

RunConfigurations ==
    { Configuration(PerspectivesTwoRirs, 2, None, Secret),
      Configuration(PerspectivesOneRir, 5, IntV(1), Secret) }

InitRuns ==
    /\ Configured(RunConfigurations)
    /\ IdleRun
    /\ earlier_runs = <<>>
    /\ CheckersIdle

\* what is kept of a call that ended
RunRecord ==
    [domain_or_ip_target |-> mpic_request.domain_or_ip_target,
     cohorts_built |-> attempts >= 1,
     cohort_size |-> perspective_count,
     perspective_cohorts |-> perspective_cohorts,
     dispatched |-> dispatched]

\* coordinate_mpic ended and is called a second time on the same coordinator
CallAgain ==
    /\ pc \in {"returned", "raised"}
    /\ earlier_runs = <<>>
    /\ earlier_runs' = Append(earlier_runs, RunRecord)
    /\ pc' = "idle"
    /\ error' = "none"
    /\ mpic_request' = NoRequest
    /\ validation' = NotValidated
    /\ perspective_count' = 0
    /\ quorum_count' = None
    /\ max_attempts' = 0
    /\ attempts' = 0
    /\ previous_attempt_results' = NoPreviousAttempts
    /\ perspective_cohorts' = <<>>
    /\ cohort_cycle' = 0
    /\ perspectives_to_use' = <<>>
    /\ tasks' = <<>>
    /\ out_of_order' = FALSE
    /\ response' = NoResponse
    /\ dispatched' = <<>>
    /\ attempt_log' = <<>>
    /\ UNCHANGED <<configVars, checkerVars>>

NextRuns == CoordinateMpic(RunRequests) \/ CallAgain

SpecRuns == InitRuns /\ [][NextRuns]_vars

\* the calls seen so far: the earlier ones and the one under way
RunsSoFar == SeqToSet(earlier_runs) \cup {RunRecord}

IsPrefixUpToShorter(s, t) ==
    \A k \in 1..(IF Len(s) < Len(t) THEN Len(s) ELSE Len(t)) : s[k] = t[k]

C10_WitnessOtherTarget ==
    \E r \in SeqToSet(earlier_runs) :
        /\ r.cohorts_built
        /\ attempts >= 1
        /\ r.cohort_size = perspective_count
        /\ r.perspective_cohorts # perspective_cohorts


\* ------------------------------------------------------------------------
\* Properties of cohort construction
\* ------------------------------------------------------------------------
CohortsCreated == pc = "created"

CohortRirs(cohort) == {cohort[i].rir : i \in 1..Len(cohort)}

C11_WitnessLargeBucket ==
    /\ CohortsCreated
    /\ perspective_count = 3
    /\ Len(perspective_cohorts) = 1
    /\ \E r \in Rirs : Len(PerspectivesOfRir(target_perspectives, r)) >= 4

\* the places (cohort, position) of the cohorts built
CohortPlaces ==
    {pl \in (1..Len(perspective_cohorts)) \X (1..MaxCohortSize + 1) :
        pl[2] <= Len(perspective_cohorts[pl[1]])}

\* C12: every cohort returned holds exactly cohort_size perspectives of the
\* list, no perspective stands at two places of the cohorts (neither twice in
\* one cohort nor in two cohorts), so that at most floor(n / cohort_size)
\* cohorts exist and the perspectives left over are in none; and cohort
\* construction raises ValueError exactly when cohort_size exceeds the number
\* of perspectives, returning no cohort then.
C12_FullDisjointCohorts ==
    /\ CohortsCreated =>
           /\ \A k \in 1..Len(perspective_cohorts) :
                  /\ Len(perspective_cohorts[k]) = perspective_count
                  /\ SeqToSet(perspective_cohorts[k]) \subseteq SeqToSet(target_perspectives)
           /\ \A a, b \in CohortPlaces :
                  perspective_cohorts[a[1]][a[2]] = perspective_cohorts[b[1]][b[2]] => a = b
           /\ Len(perspective_cohorts) * perspective_count <= Len(target_perspectives)
    /\ pc # "create" =>
           (error = "ValueError" <=> perspective_count > Len(target_perspectives))
    /\ error = "ValueError" => perspective_cohorts = <<>>

\* two cohorts were built and a perspective was left over
C12_Witness ==
    /\ CohortsCreated
    /\ Len(perspective_cohorts) >= 2
    /\ Len(perspective_cohorts) * perspective_count < Len(target_perspectives)

\* a cohort_size one above the number of perspectives was refused
C12_WitnessTooLarge ==
    /\ error = "ValueError"
    /\ perspective_count = Len(target_perspectives) + 1
    /\ Len(target_perspectives) >= 1


\* ------------------------------------------------------------------------
\* Properties of check_caa
\* ------------------------------------------------------------------------
CaaReturned == caa_pc = "returned"

\* the labels of the name check_caa looks up
TargetLabels == from_text(caa_request.domain_or_ip_target)

\* the name k-1 levels above the target
Ancestor(k) == SubSeq(TargetLabels, k, Len(TargetLabels))

LastQuery == caa_queries[Len(caa_queries)]

CaaFound == CaaReturned /\ ~IsNone(rrset)

\* C13: the k-th query of the walk asks the name k-1 levels above the target,
\* so the target comes first and each parent in turn; the root is never asked;
\* every query but the last ended in NoAnswer or NXDOMAIN, so nothing is asked
\* after a record set came back; check_caa returns only after a query that
\* brought a record set or failed, or once the parent is the root; and the
\* record set evaluated, records_seen and found_at are those of the name whose
\* query brought the record set.
C13_TreeWalk ==
    /\ \A k \in 1..Len(caa_queries) :
           /\ caa_queries[k].name = Ancestor(k)
           /\ caa_queries[k].name # root
           /\ k < Len(caa_queries) => caa_queries[k].outcome \in {"NoAnswer", "NXDOMAIN"}
    /\ caa_pc = "lookup" => domain = Ancestor(Len(caa_queries) + 1) /\ domain # root
    /\ (CaaReturned /\ TargetLabels # root) =>
           /\ caa_queries # <<>>
           /\ \/ LastQuery.outcome \notin {"NoAnswer", "NXDOMAIN"}
              \/ Len(caa_queries) = Len(TargetLabels)
    /\ CaaFound =>
           /\ LastQuery.outcome = "answer"
           /\ rrset = Some(LastQuery.records)
           /\ caa_check_response.details.found_at = Some(to_text_omit_final_dot(LastQuery.name))
           /\ caa_check_response.details.records_seen =
                  Some([i \in 1..Len(LastQuery.records) |-> caa_to_text(LastQuery.records[i])])
           /\ caa_check_response.check_passed =
                  is_valid_for_issuance(caa_domains, is_wc_domain, LastQuery.records)
    /\ (CaaReturned /\ IsNone(rrset)) =>
           \A k \in 1..Len(caa_queries) : caa_queries[k].outcome # "answer"

\* the record set came from the parent of the target, after NXDOMAIN at the target
C13_Witness ==
    /\ CaaFound
    /\ Len(caa_queries) = 2
    /\ Len(TargetLabels) = 3
    /\ caa_queries[1].outcome = "NXDOMAIN"
    /\ caa_check_response.details.found_at = Some(<<98, 46, 99>>)

\* the walk ended below the root without a record set
C13_WitnessRoot ==
    /\ CaaReturned
    /\ Len(caa_queries) = 3
    /\ LastQuery.outcome = "NoAnswer"
    /\ LastQuery.name = << <<99>> >>

\* the records of a set whose tag, lower-cased, is neither issue nor issuewild
\* nor of the allow-list, and whose critical bit is set
UnrecognizedCritical(records) ==
    {i \in 1..Len(records) :
        /\ Lower(records[i].tag) \notin {ISSUE_TAG, ISSUEWILD_TAG, CONTACTEMAIL_TAG, CONTACTPHONE_TAG,
                                        ISSUEMAIL_TAG, IODEF_TAG}
        /\ records[i].flags >= 128}

\* the record set with the critical bit cleared on the allow-listed tags
WithoutAllowListedCritical(records) ==
    [i \in 1..Len(records) |->
        IF Lower(records[i].tag) \in {CONTACTEMAIL_TAG, CONTACTPHONE_TAG, ISSUEMAIL_TAG, IODEF_TAG}
        THEN [records[i] EXCEPT !.flags = records[i].flags % 128]
        ELSE records[i]]

\* C14: for every record set found, issuance is denied when a record with a tag
\* other than issue and issuewild and outside contactemail, contactphone,
\* issuemail, iodef has the critical bit set, whatever the issue and issuewild
\* records say; and the critical bit of an allow-listed tag changes nothing:
\* the verdict is the one of the same record set with that bit cleared.
C14_CriticalUnknownDenies ==
    CaaFound =>
        /\ UnrecognizedCritical(rrset.v) # {} => ~caa_check_response.check_passed
        /\ caa_check_response.check_passed =
               is_valid_for_issuance(caa_domains, is_wc_domain, WithoutAllowListedCritical(rrset.v))

\* a critical unknown record denied issuance next to an issue record naming a configured CA
C14_Witness ==
    /\ CaaFound
    /\ UnrecognizedCritical(rrset.v) # {}
    /\ \E i \in 1..Len(rrset.v) :
           rrset.v[i].tag = ISSUE_TAG /\ rrset.v[i].value \in SeqToSet(caa_domains)
    /\ ~caa_check_response.check_passed

\* a critical iodef record next to a permitting issue record: issuance allowed
C14_WitnessIodef ==
    /\ CaaFound
    /\ \E i \in 1..Len(rrset.v) : rrset.v[i].tag = IODEF_TAG /\ rrset.v[i].flags = 128
    /\ \E i \in 1..Len(rrset.v) : rrset.v[i].tag = ISSUE_TAG
    /\ caa_check_response.check_passed

IsWildcardTarget == StartsWith(caa_request.domain_or_ip_target, <<42, 46>>)

IssueValues == ValuesTagged(rrset.v, ISSUE_TAG)
IssueWildValues == ValuesTagged(rrset.v, ISSUEWILD_TAG)

\* C15: with a record set found that has no unrecognized critical record, a
\* target beginning with "*." and at least one issuewild record, the verdict is
\* the one of the issuewild values alone, with or without caa_check_parameters
\* in the request; a wildcard target without issuewild record, and every other
\* target, is decided by the issue values when there are any.
C15_WildcardUsesIssuewild ==
    (CaaFound /\ UnrecognizedCritical(rrset.v) = {}) =>
        /\ (IsWildcardTarget /\ IssueWildValues # <<>>) =>
               caa_check_response.check_passed = do_caa_values_permit_issuance(IssueWildValues, caa_domains)
        /\ (~(IsWildcardTarget /\ IssueWildValues # <<>>) /\ IssueValues # <<>>) =>
               caa_check_response.check_passed = do_caa_values_permit_issuance(IssueValues, caa_domains)

\* C16: check_caa returns check_passed true, for every list of CAA domains,
\* when the walk ends below the root without a record set (caa_record_present
\* false, found_at and records_seen None), when the record set found has
\* neither issue nor issuewild and no unrecognized critical record, and when
\* the target is no wildcard and the record set has issuewild records only.
C16_NoApplicableTagAllows ==
    /\ (CaaReturned /\ IsNone(rrset) /\ IsNone(caa_check_response.errors)) =>
           /\ caa_check_response.check_passed
           /\ caa_check_response.details.caa_record_present = Some(FALSE)
           /\ IsNone(caa_check_response.details.found_at)
           /\ IsNone(caa_check_response.details.records_seen)
    /\ (CaaFound /\ UnrecognizedCritical(rrset.v) = {} /\ IssueValues = <<>> /\ IssueWildValues = <<>>) =>
           caa_check_response.check_passed
    /\ (CaaFound /\ ~IsWildcardTarget /\ Len(IssueWildValues) = Len(rrset.v)) =>
           caa_check_response.check_passed
    /\ (CaaReturned /\ IsNone(rrset) /\ LastQuery.outcome \in {"NoAnswer", "NXDOMAIN"}) =>
           IsNone(caa_check_response.errors)

\* no name of the target had a record set, with a list of CAA domains in the request
C16_Witness ==
    /\ CaaReturned
    /\ IsNone(rrset)
    /\ Len(caa_queries) = Len(TargetLabels)
    /\ LastQuery.outcome = "NXDOMAIN"
    /\ caa_domains # default_caa_domain_list
    /\ caa_check_response.check_passed

\* a critical iodef record alone allowed issuance
C16_WitnessOtherTags ==
    /\ CaaFound
    /\ rrset.v = <<CaaRecord(128, IODEF_TAG, <<109>>)>>
    /\ caa_check_response.check_passed

\* issuewild for a CA that is not configured, on a target that is no wildcard
C16_WitnessIssuewildOnly ==
    /\ CaaFound
    /\ ~IsWildcardTarget
    /\ ~IsNone(caa_request.caa_check_parameters)
    /\ Len(IssueWildValues) = Len(rrset.v)
    /\ \A i \in 1..Len(rrset.v) : rrset.v[i].value \notin SeqToSet(caa_domains)
    /\ caa_check_response.check_passed

\* the queries that failed other than by NoAnswer or NXDOMAIN
FailedQueries ==
    {k \in 1..Len(caa_queries) : caa_queries[k].outcome \notin {"answer", "NoAnswer", "NXDOMAIN"}}

\* C18: a query that fails with an exception other than NoAnswer and NXDOMAIN is
\* the last query of the walk, and check_caa has then returned a response with
\* check_passed false, the one error CAA_LOOKUP_ERROR and a timestamp.
C18_LookupError ==
    \A k \in FailedQueries :
        /\ k = Len(caa_queries)
        /\ CaaReturned
        /\ ~caa_check_response.check_passed
        /\ ~IsNone(caa_check_response.errors)
        /\ Len(caa_check_response.errors.v) = 1
        /\ caa_check_response.errors.v[1].error_type = "CAA_LOOKUP_ERROR"
        /\ ~IsNone(caa_check_response.timestamp_ns)

\* the query at the parent timed out, with a name above it left unasked
C18_Witness ==
    /\ CaaReturned
    /\ Len(caa_queries) = 2
    /\ Len(TargetLabels) = 3
    /\ LastQuery.outcome = "Timeout"
    /\ ~caa_check_response.check_passed


\* ------------------------------------------------------------------------
\* Properties of do_caa_values_permit_issuance
\* ------------------------------------------------------------------------
ValuesEvaluated == caa_pc = "evaluated"

\* the values of the list that parse, with an issuer domain of the configured list
PermittingValues ==
    {i \in 1..Len(value_list) :
        /\ value_list[i] \in WellFormedCaaValues
        /\ Strip(Split(value_list[i], 59)[1]) \in SeqToSet(caa_domains)}

C17_WitnessNothing ==
    /\ ValuesEvaluated
    /\ value_list = << <<>>, <<97, 46, 99, 97, 59, 107>> >>
    /\ caa_domains # <<>>
    /\ ~issuance_permitted.v


\* ------------------------------------------------------------------------
\* Properties of check_dcv, HTTP-based methods
\* ------------------------------------------------------------------------
\* check_dcv returned after reading the body of a response with status 200
BodyEvaluated ==
    /\ dcv_pc = "returned"
    /\ lookup_response.status = 200
    /\ IsNone(dcv_check_response.errors)

DcvMethod == dcv_request.dcv_check_parameters.validation_method

\* the bytes read are the first bytes of the body, at most max(100, len(expected)) of them
ContentIsBodyPrefix ==
    /\ Len(content) <= Len(lookup_response.body)
    /\ Len(content) <= Max(MinBytesToRead, Len(expected_response_content_of(dcv_request)))
    /\ content = SubSeq(lookup_response.body, 1, Len(content))

\* the text of the bytes read, without the whitespace around it
StrippedBodyPrefix == Strip(utf8_decode(content).text)

\* C19: an ACME_HTTP_01 check that got status 200 and read the body passes
\* exactly when the text of the bytes read, stripped of the whitespace around
\* it, is the key authorization; and a check that ended with an error did
\* not pass.
C19_AcmeHttpExactMatch ==
    /\ (BodyEvaluated /\ DcvMethod = "ACME_HTTP_01") =>
           /\ ContentIsBodyPrefix
           /\ dcv_check_response.check_passed
                  <=> StrippedBodyPrefix = dcv_request.dcv_check_parameters.key_authorization
    /\ (dcv_pc = "returned" /\ DcvMethod = "ACME_HTTP_01" /\ ~IsNone(dcv_check_response.errors)) =>
           ~dcv_check_response.check_passed

\* the body " ab\n" passed for the key authorization "ab"
C19_Witness ==
    /\ BodyEvaluated
    /\ DcvMethod = "ACME_HTTP_01"
    /\ lookup_response.body = <<32, 97, 98, 10>>
    /\ dcv_check_response.check_passed

\* the body "xabx", which contains the key authorization, did not pass
C19_WitnessContains ==
    /\ BodyEvaluated
    /\ DcvMethod = "ACME_HTTP_01"
    /\ lookup_response.body = <<120, 97, 98, 120>>
    /\ ~dcv_check_response.check_passed

\* what a search of the patterns "^ab" and "b[0-9]*$" comes to
RegexHits(pattern, text) ==
    IF pattern = <<94, 97, 98>> THEN Len(text) >= 2 /\ text[1] = 97 /\ text[2] = 98
    ELSE \E i \in 1..Len(text) : text[i] = 98 /\ \A j \in (i + 1)..Len(text) : IsDigit(text[j])

MatchRegex == dcv_request.dcv_check_parameters.match_regex

\* C20: a WEBSITE_CHANGE check that got status 200 and read the body passes
\* exactly when the challenge value occurs in the stripped text of the bytes
\* read and, if match_regex is given and not empty, a search of match_regex in
\* that text hits; with match_regex None or empty the occurrence decides alone.
C20_WebsiteChangeSubstring ==
    (BodyEvaluated /\ DcvMethod = "WEBSITE_CHANGE") =>
        /\ ContentIsBodyPrefix
        /\ dcv_check_response.check_passed
               <=> /\ IsSubstring(dcv_request.dcv_check_parameters.challenge_value, StrippedBodyPrefix)
                   /\ (~IsNone(MatchRegex) /\ MatchRegex.v # <<>>) => RegexHits(MatchRegex.v, StrippedBodyPrefix)

\* the body "xabx" passed without match_regex
C20_Witness ==
    /\ BodyEvaluated
    /\ DcvMethod = "WEBSITE_CHANGE"
    /\ lookup_response.body = <<120, 97, 98, 120>>
    /\ MatchRegex = Some(<<>>)
    /\ dcv_check_response.check_passed

\* the body "xabx" holds the challenge value and failed the pattern "b[0-9]*$"
C20_WitnessRegexMiss ==
    /\ BodyEvaluated
    /\ DcvMethod = "WEBSITE_CHANGE"
    /\ lookup_response.body = <<120, 97, 98, 120>>
    /\ MatchRegex = Some(<<98, 91, 48, 45, 57, 93, 42, 36>>)
    /\ ~dcv_check_response.check_passed

\* the body "xab1" holds the challenge value and the pattern "b[0-9]*$" hit
C20_WitnessRegexHit ==
    /\ BodyEvaluated
    /\ DcvMethod = "WEBSITE_CHANGE"
    /\ lookup_response.body = <<120, 97, 98, 49>>
    /\ MatchRegex = Some(<<98, 91, 48, 45, 57, 93, 42, 36>>)
    /\ dcv_check_response.check_passed

\* ------------------------------------------------------------------------
\* check_dcv over DNS: the verdict on an answer
\* ------------------------------------------------------------------------
\* check_dcv returned after it evaluated an answer
AnswerEvaluated == dcv_pc = "returned" /\ ~IsNone(lookup)

DnsParameters == dcv_request.dcv_check_parameters

\* the strings extracted from the answer, as the response reports them
RecordsSeen == dcv_check_response.details.records_seen.v

ExpectedContent ==
    IF DnsParameters.validation_method = "ACME_DNS_01"
    THEN DnsParameters.key_authorization
    ELSE DnsParameters.challenge_value

\* the two sides as they are compared: lower-cased for CNAME records
Compared(s) == IF DnsParameters.dns_record_type = "CNAME" THEN Lower(s) ELSE s

EqualsSomeRecord == \E i \in 1..Len(RecordsSeen) : Compared(RecordsSeen[i]) = Compared(ExpectedContent)

WithinSomeRecord ==
    \E i \in 1..Len(RecordsSeen) : IsSubstring(Compared(ExpectedContent), Compared(RecordsSeen[i]))

\* C21: for ACME_DNS_01, whatever require_exact_match says, and for every
\* method with require_exact_match true, the check passes iff the expected
\* content equals one of the extracted strings; otherwise it passes iff the
\* expected content is a substring of one of them; for CNAME records both
\* sides are compared in lower case.
C21_DnsMatching ==
    AnswerEvaluated =>
        IF DnsParameters.validation_method = "ACME_DNS_01" \/ DnsParameters.require_exact_match
        THEN dcv_check_response.check_passed <=> EqualsSomeRecord
        ELSE dcv_check_response.check_passed <=> WithinSomeRecord

\* ACME_DNS_01 with require_exact_match false fails on a record that only contains the key authorization
C21_Witness ==
    /\ AnswerEvaluated
    /\ DnsParameters.validation_method = "ACME_DNS_01"
    /\ ~DnsParameters.require_exact_match
    /\ WithinSomeRecord
    /\ ~EqualsSomeRecord
    /\ ~dcv_check_response.check_passed

\* an exact match passes on the second of two records
C21_WitnessExact ==
    /\ AnswerEvaluated
    /\ DnsParameters.validation_method = "DNS_CHANGE"
    /\ DnsParameters.require_exact_match
    /\ Len(RecordsSeen) = 2
    /\ RecordsSeen[1] # ExpectedContent
    /\ RecordsSeen[2] = ExpectedContent
    /\ dcv_check_response.check_passed

\* a substring match passes where no record equals the expected content
C21_WitnessSubstring ==
    /\ AnswerEvaluated
    /\ ~DnsParameters.require_exact_match
    /\ DnsParameters.validation_method = "DNS_CHANGE"
    /\ ~EqualsSomeRecord
    /\ dcv_check_response.check_passed

\* a CNAME record passes an exact match though the two sides differ in case
C21_WitnessCname ==
    /\ AnswerEvaluated
    /\ DnsParameters.dns_record_type = "CNAME"
    /\ DnsParameters.require_exact_match
    /\ \A i \in 1..Len(RecordsSeen) : RecordsSeen[i] # ExpectedContent
    /\ dcv_check_response.check_passed

\* ------------------------------------------------------------------------
\* check_dcv over DNS: contact details in CAA records
\* ------------------------------------------------------------------------
\* a contact method over CAA records, and the tag it reads
ContactOverCaa ==
    /\ DnsParameters.validation_method \in {"CONTACT_EMAIL", "CONTACT_PHONE"}
    /\ DnsParameters.dns_record_type = "CAA"

RequiredTag ==
    IF DnsParameters.validation_method = "CONTACT_EMAIL"
    THEN <<99, 111, 110, 116, 97, 99, 116, 101, 109, 97, 105, 108>>
    ELSE <<99, 111, 110, 116, 97, 99, 116, 112, 104, 111, 110, 101>>

\* the CAA records of the answer, in answer order
AnswerCaaRecords == records_of_type(lookup.v.answer, "CAA")

\* those of them that carry the tag (tags compare without regard to case)
RecordsWithRequiredTag == SelectSeq(AnswerCaaRecords, LAMBDA r : Lower(r.tag) = RequiredTag)

\* C22: for CONTACT_EMAIL (CONTACT_PHONE) over CAA records, records_seen holds
\* the values of the records tagged contactemail (contactphone) and of no other
\* record, and the check passes only on the value of such a record: a record
\* with another tag never makes it pass, even with the challenge value as its
\* value.
C22_ContactTagOnly ==
    (AnswerEvaluated /\ ContactOverCaa) =>
        /\ RecordsSeen = [i \in 1..Len(RecordsWithRequiredTag) |-> RecordsWithRequiredTag[i].value]
        /\ dcv_check_response.check_passed =>
               \E i \in 1..Len(RecordsWithRequiredTag) :
                   IsSubstring(DnsParameters.challenge_value, RecordsWithRequiredTag[i].value)

\* the only record has the challenge value under the tag issue: nothing is seen, the check fails
C22_Witness ==
    /\ AnswerEvaluated
    /\ ContactOverCaa
    /\ DnsParameters.validation_method = "CONTACT_EMAIL"
    /\ Len(AnswerCaaRecords) = 1
    /\ AnswerCaaRecords[1].tag = <<105, 115, 115, 117, 101>>
    /\ AnswerCaaRecords[1].value = DnsParameters.challenge_value
    /\ RecordsSeen = <<>>
    /\ ~dcv_check_response.check_passed

\* CONTACT_PHONE: a contactemail record with the challenge value beside a contactphone record is not seen
C22_WitnessPhone ==
    /\ AnswerEvaluated
    /\ ContactOverCaa
    /\ DnsParameters.validation_method = "CONTACT_PHONE"
    /\ Len(AnswerCaaRecords) = 2
    /\ Lower(AnswerCaaRecords[1].tag) = <<99, 111, 110, 116, 97, 99, 116, 101, 109, 97, 105, 108>>
    /\ Len(RecordsSeen) = 1
    /\ dcv_check_response.check_passed

\* ------------------------------------------------------------------------
\* check_dcv over HTTP: exceptions of the GET and of the read
\* ------------------------------------------------------------------------
\* C23: every transport error or protocol exception raised while the response
\* is fetched or read, a timeout included, makes check_dcv return a response
\* with check_passed false, exactly one error whose error_type is the class
\* name of the exception, and a timestamp.
C23_HttpExceptionIsAResponse ==
    [][\A exception \in HttpExceptions :
           HttpRaises(exception) =>
               /\ dcv_pc' = "returned"
               /\ dcv_check_response'.check_passed = FALSE
               /\ ~IsNone(dcv_check_response'.errors)
               /\ Len(dcv_check_response'.errors.v) = 1
               /\ dcv_check_response'.errors.v[1].error_type = exception
               /\ ~IsNone(dcv_check_response'.timestamp_ns)]_vars

\* ------------------------------------------------------------------------
\* check_dcv over DNS: exceptions of the resolver
\* ------------------------------------------------------------------------
\* the outcome of the last query sent
LastDnsOutcome == dns_queries[Len(dns_queries)].outcome

\* the method walks the tree
Walks == DnsParameters.validation_method \in {"CONTACT_EMAIL", "CONTACT_PHONE"} /\ DnsParameters.dns_record_type = "CAA"

\* the last query raised an exception that ended the lookup: any exception for
\* a method that does not walk, any but NoAnswer and NXDOMAIN for one that does
LookupRaised ==
    /\ dns_queries # <<>>
    /\ LastDnsOutcome # "answer"
    /\ Walks => LastDnsOutcome \notin {"NoAnswer", "NXDOMAIN"}

\* C24: every exception of the resolver that ends the lookup (NoAnswer and
\* NXDOMAIN included, for the methods that do not walk the tree) makes
\* check_dcv return a response with check_passed false, exactly one error
\* with the class name and the message of the exception, and a timestamp.
C24_DnsExceptionIsAResponse ==
    LookupRaised =>
        /\ dcv_pc = "returned"
        /\ dcv_check_response.check_passed = FALSE
        /\ ~IsNone(dcv_check_response.timestamp_ns)
        /\ ~IsNone(dcv_check_response.errors)
        /\ \E exception \in DnsExceptions :
               /\ exception.class = LastDnsOutcome
               /\ dcv_check_response.errors.v =
                      <<[error_type |-> exception.class, error_message |-> exception.msg]>>

\* DNS_CHANGE: NoAnswer for the one name asked
C24_Witness ==
    /\ LookupRaised
    /\ DnsParameters.validation_method = "DNS_CHANGE"
    /\ LastDnsOutcome = "NoAnswer"
    /\ Len(dns_queries) = 1
    /\ dcv_pc = "returned"

\* a contact method over CAA: a timeout at the parent, after NXDOMAIN at the name
C24_WitnessWalk ==
    /\ LookupRaised
    /\ Walks
    /\ Len(dns_queries) = 2
    /\ dns_queries[1].outcome = "NXDOMAIN"
    /\ LastDnsOutcome = "LifetimeTimeout"
    /\ dcv_pc = "returned"

\* ------------------------------------------------------------------------
\* The shared HTTP client
\* ------------------------------------------------------------------------
\* the checks that were handed a client
HandedChecks == { i \in 1..Len(client_tasks) : client_tasks[i].kind = "check" /\ ~IsNone(client_tasks[i].handed) }

C25_WitnessReuse ==
    /\ reuse_http_client
    /\ Len(client_tasks) = 2
    /\ HandedChecks = {1, 2}
    /\ client_tasks[1].loop = client_tasks[2].loop
    /\ client_tasks[1].pc = "done"
    /\ client_tasks[2].client = client_tasks[1].client
    /\ Len(http_clients) = 1

\* C30: with client reuse, under every interleaving of checks and shutdowns,
\* every client the checker created is the one it references or is closed:
\* there is never an open client the checker no longer references.
C30_NoLeakedClient ==
    reuse_http_client =>
        \A client \in 1..Len(http_clients) :
            http_clients[client].closed \/ async_http_client = Some(client)


\* ------------------------------------------------------------------------
\* C26: the responses of an attempt are in the order of the cohort
\* ------------------------------------------------------------------------
\* the reply of the call made for the i-th perspective of the attempt's cohort:
\* what the remote caller returned, or the error response for a call that raised
ReplyOfCall(attempt, i) ==
    IF attempt.results[i].state = "raised"
    THEN CheckResponse(attempt.cohort[i].code, FALSE, <<"COORDINATOR_COMMUNICATION_ERROR">>)
    ELSE attempt.results[i].response

InCohortOrder(attempt, check_responses) ==
    /\ Len(check_responses) = Len(attempt.cohort)
    /\ \A i \in 1..Len(attempt.cohort) : check_responses[i] = ReplyOfCall(attempt, i)

ResponseReturned == pc = "returned" /\ response.kind = "MpicResponse"

\* C26: in every attempt evaluated, and in the response returned with its
\* previous_attempt_results, position i of the list of check responses holds
\* the reply of the call made for the i-th perspective of the cohort, whatever
\* the order in which the calls completed or raised
C26_ResponsesInCohortOrder ==
    /\ \A k \in 1..Len(attempt_log) :
           InCohortOrder(attempt_log[k], attempt_log[k].responses)
    /\ ResponseReturned =>
           /\ attempt_log # <<>>
           /\ InCohortOrder(attempt_log[Len(attempt_log)], response.perspectives)
           /\ response.previous_attempt_results.present =>
                  LET lists == response.previous_attempt_results.lists
                  IN  /\ Len(lists) = Len(attempt_log) - 1
                      /\ \A k \in 1..Len(lists) : InCohortOrder(attempt_log[k], lists[k])

\* a response returned after a later call of the last attempt completed before
\* an earlier one, with different replies at the first two positions
C26_Witness ==
    /\ ResponseReturned
    /\ out_of_order
    /\ Len(response.perspectives) >= 2
    /\ response.perspectives[1] # response.perspectives[2]

\* the same with a call that raised before a call started earlier returned, and
\* with an earlier attempt in previous_attempt_results
C26_WitnessRaised ==
    /\ ResponseReturned
    /\ out_of_order
    /\ response.previous_attempt_results.present
    /\ \E i \in 2..Len(tasks) : tasks[i].state = "raised" /\ tasks[i - 1].state = "returned"

\* ------------------------------------------------------------------------
\* C28: timestamp_ns is assigned once, when the verdict is final
\* ------------------------------------------------------------------------
\* C28: a check that returned has assigned timestamp_ns of its response exactly
\* once, in the step that made check_passed and errors final
C28_TimestampOnceAtVerdict ==
    dcv_pc = "returned" => timestamp_writes = <<"returned">>

\* ------------------------------------------------------------------------
\* C29: the effective quorum count is within the range allowed for the
\* effective perspective count
\* ------------------------------------------------------------------------
\* validate_quorum_count's range, for a perspective count n and a quorum count q
QuorumWithinRange(n, q) ==
    /\ n <= 5 => (n - 1 <= q /\ q <= n)
    /\ n >= 6 => (n - 2 <= q /\ q <= n)

\* C29: the quorum_count and perspective_count of the
\* actual_orchestration_parameters of every response returned satisfy
\* n-1 <= q <= n for n <= 5 and n-2 <= q <= n for n >= 6, also when the request
\* gave a quorum_count and no perspective_count
C29_EffectiveQuorumWithinRange ==
    ResponseReturned =>
        QuorumWithinRange(response.actual_orchestration_parameters.perspective_count,
                          response.actual_orchestration_parameters.quorum_count)

\* ------------------------------------------------------------------------
\* C27: a check response that passed carries no errors
\* ------------------------------------------------------------------------
\* errors is None or an empty list
NoErrors(errors) == errors = None \/ errors = Some(<<>>)

\* the error responses the coordinator built for calls that raised, in the
\* attempts evaluated
SyntheticResponses ==
    UNION { { attempt_log[k].responses[i] :
                i \in {j \in 1..Len(attempt_log[k].results) :
                           attempt_log[k].results[j].state = "raised"} } :
            k \in 1..Len(attempt_log) }

\* C27: the response check_caa returned, the response check_dcv returned (HTTP
\* and DNS methods) and every error response the coordinator built have
\* errors empty or None whenever check_passed is true; so a response with
\* errors set has check_passed false
C27_PassedWithoutErrors ==
    /\ caa_pc = "returned" =>
           (caa_check_response.check_passed => NoErrors(caa_check_response.errors))
    /\ dcv_pc = "returned" =>
           (dcv_check_response.check_passed => NoErrors(dcv_check_response.errors))
    /\ \A r \in SyntheticResponses : r.check_passed => r.errors = <<>>

\* check_dcv returned a passing response over DNS, without errors
C27_Witness ==
    /\ dcv_pc = "returned"
    /\ dcv_request.dcv_check_parameters.validation_method \in {"DNS_CHANGE", "ACME_DNS_01"}
    /\ dcv_check_response.check_passed
    /\ dcv_check_response.errors = None

\* check_dcv returned a passing response over HTTP
C27_WitnessHttp ==
    /\ dcv_pc = "returned"
    /\ dcv_request.dcv_check_parameters.validation_method \in {"WEBSITE_CHANGE", "ACME_HTTP_01"}
    /\ dcv_check_response.check_passed
    /\ dcv_check_response.errors = None

\* check_caa returned a passing response
C27_WitnessCaa ==
    /\ caa_pc = "returned"
    /\ caa_check_response.check_passed
    /\ caa_check_response.errors = None

\* check_caa and check_dcv returned responses with errors set
C27_WitnessCaaErrors ==
    /\ caa_pc = "returned"
    /\ ~NoErrors(caa_check_response.errors)
    /\ ~caa_check_response.check_passed

C27_WitnessDcvErrors ==
    /\ dcv_pc = "returned"
    /\ ~NoErrors(dcv_check_response.errors)
    /\ ~dcv_check_response.check_passed

\* the coordinator built an error response for a call that raised
C27_WitnessSynthetic ==
    \E r \in SyntheticResponses : r.errors # <<>> /\ ~r.check_passed

\* ------------------------------------------------------------------------
\* C31: a walk that finds no answer below the root
\* ------------------------------------------------------------------------
\* every name from the computed name up to the root was queried and answered
\* NoAnswer or NXDOMAIN
WalkExhausted ==
    /\ Walks
    /\ dns_queries # <<>>
    /\ dcv_domain = root
    /\ \A q \in 1..Len(dns_queries) : dns_queries[q].outcome \in {"NoAnswer", "NXDOMAIN"}

\* C31: the contact methods over CAA records, when every name up to the root
\* answers NoAnswer or NXDOMAIN, return a response with check_passed false and
\* timestamp_ns set; check_dcv does not raise
C31_WalkExhaustionIsAResponse ==
    WalkExhausted =>
        /\ dcv_pc = "returned"
        /\ ~dcv_check_response.check_passed
        /\ ~IsNone(dcv_check_response.timestamp_ns)

\* ------------------------------------------------------------------------
\* C32: a target with non-ASCII characters
\* ------------------------------------------------------------------------
\* coordinate_mpic was called with an accepted request whose target has a
\* character outside ASCII, for a cohort size the perspectives allow
NonAsciiTargetAccepted ==
    /\ pc # "idle"
    /\ validation.is_request_valid
    /\ ~IsAscii(mpic_request.domain_or_ip_target)
    /\ ~CohortSizeTooLarge(target_perspectives, perspective_count)

\* C32: for an accepted request whose target has non-ASCII characters the seed
\* is derived and the cohorts are built as for any other target: the seed
\* computation raises nothing and coordinate_mpic goes on to the attempts
C32_NonAsciiTargetIsDispatched ==
    NonAsciiTargetAccepted =>
        /\ error # "UnicodeEncodeError"
        /\ pc \in {"loop", "gather", "returned"} \/ error \in {"RuntimeError", "TypeError"}

\* ------------------------------------------------------------------------
\* C33: the number of attempts
\* ------------------------------------------------------------------------
\* min(requested max_attempts or 1, global_max_attempts or unbounded)
AttemptBound ==
    LET op == mpic_request.orchestration_parameters
        requested == IF op.present /\ ~IsNone(op.max_attempts) THEN op.max_attempts.v ELSE 1
    IN  IF IsNone(global_max_attempts) THEN requested
        ELSE IF requested <= global_max_attempts.v THEN requested ELSE global_max_attempts.v

\* C33: the attempts coordinate_mpic performs, and the attempt_count of its
\* response, never exceed min(requested max_attempts or 1, global_max_attempts
\* or unbounded), and equal it when coordinate_mpic ended with every attempt
\* failing the quorum rule
C33_AttemptsWithinBound ==
    /\ Len(dispatched) <= AttemptBound
    /\ ResponseReturned =>
           /\ response.actual_orchestration_parameters.attempt_count <= AttemptBound
           /\ ~response.is_valid =>
                  /\ response.actual_orchestration_parameters.attempt_count = AttemptBound
                  /\ Len(dispatched) = AttemptBound

\* ------------------------------------------------------------------------
\* C34: one remote call per perspective of the cohort, all started together,
\* the quorum evaluated when all are back
\* ------------------------------------------------------------------------
\* the calls under way are one per perspective of the cohort chosen, and the
\* perspectives of the cohort are distinct
OneCallPerPerspective ==
    pc = "gather" =>
        /\ perspectives_to_use = dispatched[Len(dispatched)]
        /\ \E c \in 1..Len(perspective_cohorts) : perspectives_to_use = perspective_cohorts[c]
        /\ Len(tasks) = Len(perspectives_to_use)
        /\ Cardinality({perspectives_to_use[i] : i \in 1..Len(perspectives_to_use)}) = Len(tasks)

\* every attempt evaluated had one call per perspective of its cohort, each
\* returned or raised
EvaluatedWhenAllBack ==
    \A k \in 1..Len(attempt_log) :
        /\ attempt_log[k].cohort = dispatched[k]
        /\ Len(attempt_log[k].results) = Len(attempt_log[k].cohort)
        /\ \A i \in 1..Len(attempt_log[k].results) :
               attempt_log[k].results[i].state \in {"returned", "raised"}

\* the step that starts an attempt starts every call of it, and a call that
\* completed is not made again; the step that evaluates the attempt finds
\* every call back
CallsStartedTogether ==
    /\ (pc = "loop" /\ pc' = "gather") =>
           \A i \in 1..Len(tasks') : tasks'[i].state = "pending"
    /\ (pc = "gather" /\ pc' = "gather") =>
           /\ Len(tasks') = Len(tasks)
           /\ \A i \in 1..Len(tasks) : tasks[i].state # "pending" => tasks'[i] = tasks[i]
    /\ attempt_log' # attempt_log =>
           \A i \in 1..Len(tasks) : tasks[i].state # "pending"

\* C34: in each attempt the remote caller is invoked once for every
\* perspective of the chosen cohort and for no other, all calls are started in
\* one step before any completes, and the attempt is evaluated only when every
\* call has returned or raised
C34_OneCallPerPerspective ==
    /\ [](OneCallPerPerspective /\ EvaluatedWhenAllBack)
    /\ [][CallsStartedTogether]_vars

\* an attempt with a cohort of three evaluated after one call raised and two
\* returned
C34_Witness ==
    /\ attempt_log # <<>>
    /\ Len(LastAttempt.cohort) = 3
    /\ \E i, j \in 1..3 : LastAttempt.results[i].state = "raised" /\ LastAttempt.results[j].state = "returned"

\* ------------------------------------------------------------------------
\* C35: the cohorts are used in cyclic order
\* ------------------------------------------------------------------------
\* C35: with n cohorts built, attempt k uses cohort number (k-1) mod n of the
\* list (counted from 0): successive attempts use successive cohorts and the
\* list is gone through again in the same order once it is used up
C35_CohortsInCyclicOrder ==
    \A k \in 1..Len(dispatched) :
        dispatched[k] = perspective_cohorts[((k - 1) % Len(perspective_cohorts)) + 1]

\* three attempts over two different cohorts: the third uses the first again
C35_Witness ==
    /\ Len(perspective_cohorts) = 2
    /\ perspective_cohorts[1] # perspective_cohorts[2]
    /\ Len(dispatched) = 3
    /\ Len(attempt_log) = 3

\* ------------------------------------------------------------------------
\* C36: the names queried
\* ------------------------------------------------------------------------
\* prefix.target when dns_name_prefix is not empty, else the target
ComputedName ==
    IF ~IsNone(DnsParameters.dns_name_prefix) /\ DnsParameters.dns_name_prefix.v # <<>>
    THEN from_text(DnsParameters.dns_name_prefix.v \o <<46>> \o dcv_request.domain_or_ip_target)
    ELSE from_text(dcv_request.domain_or_ip_target)

\* C36: the first query is for the computed name; the contact methods over CAA
\* records go on to the parent of the name last queried after NoAnswer or
\* NXDOMAIN, as long as that parent is not the root, and to no other name;
\* every other method and record type makes one query only; no query follows
\* an answer, and a response built from an answer reports the name of the
\* query answered as found_at
C36_NamesQueried ==
    dns_queries # <<>> =>
        /\ dns_queries[1].name = ComputedName
        /\ \A q \in 2..Len(dns_queries) :
               /\ Walks
               /\ dns_queries[q - 1].outcome \in {"NoAnswer", "NXDOMAIN"}
               /\ dns_queries[q].name = parent(dns_queries[q - 1].name)
        /\ (Walks /\ LastDnsOutcome \in {"NoAnswer", "NXDOMAIN"}
                  /\ parent(dns_queries[Len(dns_queries)].name) # root) =>
               /\ dcv_pc = "resolve"
               /\ dcv_domain = parent(dns_queries[Len(dns_queries)].name)
        /\ ~Walks => dcv_pc # "resolve"
        /\ AnswerEvaluated =>
               /\ LastDnsOutcome = "answer"
               /\ dcv_check_response.details.found_at =
                      Some(to_text_omit_final_dot(dns_queries[Len(dns_queries)].name))

\* a contact method over CAA records answered at the parent of the parent of
\* the computed name
C36_Witness ==
    /\ AnswerEvaluated
    /\ Walks
    /\ Len(dns_queries) = 3
    /\ dcv_check_response.details.found_at = Some(<<99>>)

\* a method that does not walk answered NoAnswer at its one query, for a name
\* with a prefix
C36_WitnessOneQuery ==
    /\ dcv_pc = "returned"
    /\ ~Walks
    /\ ~IsNone(DnsParameters.dns_name_prefix)
    /\ Len(dns_queries) = 1
    /\ LastDnsOutcome = "NoAnswer"


\* ------------------------------------------------------------------------
\* C37: shutdown with client reuse
\* ------------------------------------------------------------------------
\* the step is a call of shutdown: the call runs lines 79-80 up to the await
ShutdownCalled ==
    /\ Len(client_tasks') = Len(client_tasks) + 1
    /\ client_tasks'[Len(client_tasks')].kind = "shutdown"

\* the step is the return of the i-th call, a shutdown
ShutdownReturned(i) ==
    /\ client_tasks'[i].kind = "shutdown"
    /\ client_tasks'[i].pc = "done"
    /\ i <= Len(client_tasks) => client_tasks[i].pc # "done"

\* the checks that have entered and not left
ChecksInFlight(calls) == { i \in 1..Len(calls) : calls[i].kind = "check" /\ calls[i].pc # "done" }

\* the client the checker references exists and is open
SharedClientOpen == ~IsNone(async_http_client) /\ ~http_clients[async_http_client.v].closed

\* a call of shutdown closes the referenced client when it is open, and closes nothing otherwise
ShutdownClosesTheOpenClient ==
    ShutdownCalled =>
        /\ SharedClientOpen => http_clients' = [http_clients EXCEPT ![async_http_client.v].closed = TRUE]
        /\ ~SharedClientOpen => http_clients' = http_clients
        /\ client_tasks'[Len(client_tasks')].pc = (IF SharedClientOpen THEN "closing" ELSE "done")

\* a client that is closed is not closed again: close() is called on open clients only
ClosedAtMostOnce ==
    \A i \in 1..Len(client_tasks') :
        (client_tasks'[i].pc = "closing" /\ (i <= Len(client_tasks) => client_tasks[i].pc # "closing")) =>
            /\ ~http_clients[client_tasks'[i].found.v].closed
            /\ http_clients'[client_tasks'[i].found.v].closed

\* when a shutdown returns and no check is in flight, every client is closed
NoOpenClientAfterShutdown ==
    \A i \in 1..Len(client_tasks') :
        (ShutdownReturned(i) /\ ChecksInFlight(client_tasks') = {}) =>
            \A client \in 1..Len(http_clients') : http_clients'[client].closed

\* C37: with client reuse, shutdown closes the shared client if and only if
\* one exists and is open, and further shutdown calls close nothing: each
\* client is closed at most once, and after shutdown returns with no check
\* in flight no open client remains.
C37_ShutdownClosesOnce ==
    [][reuse_http_client =>
          /\ ShutdownClosesTheOpenClient
          /\ ClosedAtMostOnce
          /\ NoOpenClientAfterShutdown]_vars


\* ------------------------------------------------------------------------
\* C38: without client reuse a check has a client of its own
\* ------------------------------------------------------------------------
\* check_dcv has been called and has not ended
DcvUnderWay == dcv_pc \in {"get", "read"}

\* check_dcv has returned or raised
DcvEnded == dcv_pc \in {"returned", "raised"}

\* the checks that have ended: of the other calls, and the one followed step by step
ChecksEnded ==
    { i \in 1..Len(client_tasks) : client_tasks[i].pc = "done" }
    \cup (IF DcvEnded THEN {0} ELSE {})

\* the client of a check: call 0 is the check followed step by step
ClientOfCheck(i) == IF i = 0 THEN http_client ELSE client_tasks[i].client

\* the checks that have been called
ChecksCalled == (1..Len(client_tasks)) \cup (IF dcv_pc = "idle" THEN {} ELSE {0})

\* C38: without client reuse every HTTP-based check creates a client of its
\* own, which is open while the check is under way and closed when check_dcv
\* has returned or raised, whatever the path (status 200, another status, a
\* transport exception, any other exception); no two checks have the same
\* client, and the checker keeps no reference to any of them.
C38_OwnClientClosedAtEnd ==
    ~reuse_http_client =>
        /\ async_http_client = None
        /\ Cardinality(ChecksCalled) = Len(http_clients)
        /\ \A i \in ChecksCalled :
               /\ ClientOfCheck(i) \in 1..Len(http_clients)
               /\ http_clients[ClientOfCheck(i)].closed <=> i \in ChecksEnded
               /\ \A j \in ChecksCalled \ {i} : ClientOfCheck(j) # ClientOfCheck(i)

\* a check that ended with the response to HTTP 200 while another check is under way
C38_Witness ==
    /\ ~reuse_http_client
    /\ dcv_pc = "returned"
    /\ lookup_response.status = 200
    /\ http_clients[http_client].closed
    /\ \E i \in 1..Len(client_tasks) :
           /\ client_tasks[i].pc = "using"
           /\ ~http_clients[client_tasks[i].client].closed

\* a check that ended with the response to another status
C38_WitnessStatus ==
    /\ ~reuse_http_client
    /\ dcv_pc = "returned"
    /\ lookup_response.status = 404
    /\ http_clients[http_client].closed

\* a check that ended with the response to a transport exception
C38_WitnessTransport ==
    /\ ~reuse_http_client
    /\ dcv_pc = "returned"
    /\ ~IsNone(dcv_check_response.errors)
    /\ lookup_response = NoHttpResponse
    /\ http_clients[http_client].closed

\* a check that raised: a timeout, and a body that is no UTF-8
C38_WitnessRaised ==
    /\ ~reuse_http_client
    /\ dcv_pc = "raised"
    /\ dcv_error = "TimeoutError"
    /\ http_clients[http_client].closed

C38_WitnessRaisedInEvaluation ==
    /\ ~reuse_http_client
    /\ dcv_pc = "raised"
    /\ dcv_error = "UnicodeDecodeError"
    /\ http_clients[http_client].closed


\* ------------------------------------------------------------------------
\* C39: the part of the body that is read
\* ------------------------------------------------------------------------
\* the first min(B, max(100, L)) bytes of the body of the response
BodyPrefix ==
    SubSeq(lookup_response.body, 1,
           Min(Len(lookup_response.body),
               Max(MinBytesToRead, Len(expected_response_content_of(dcv_request)))))

\* C39: on HTTP 200, for a body of B bytes and expected content of length L,
\* the bytes read, the text matched and response_page (base64) are those of
\* the first min(B, max(100, L)) bytes of the body.
C39_ReadsBoundedPrefix ==
    BodyEvaluated =>
        /\ content = BodyPrefix
        /\ dcv_check_response.details.response_page = Some(b64encode(BodyPrefix))
        /\ dcv_check_response.check_passed =
               http_check_passed(dcv_request.dcv_check_parameters.validation_method,
                                 expected_response_content_of(dcv_request),
                                 dcv_request.dcv_check_parameters.match_regex,
                                 Strip(utf8_decode(BodyPrefix).text))


\* ------------------------------------------------------------------------
\* C40: the effective quorum count
\* ------------------------------------------------------------------------
\* the perspective count in effect: the count of the request, or the default
EffectivePerspectiveCount ==
    IF mpic_request.orchestration_parameters.present
       /\ ~IsNone(mpic_request.orchestration_parameters.perspective_count)
    THEN mpic_request.orchestration_parameters.perspective_count.v
    ELSE default_perspective_count

\* the quorum count in effect: the count of the request, or one below the
\* perspective count up to five perspectives and two below from six on
EffectiveQuorumCount ==
    IF mpic_request.orchestration_parameters.present
       /\ ~IsNone(mpic_request.orchestration_parameters.quorum_count)
    THEN mpic_request.orchestration_parameters.quorum_count
    ELSE IF EffectivePerspectiveCount <= 5
         THEN IntV(EffectivePerspectiveCount - 1)
         ELSE IntV(EffectivePerspectiveCount - 2)

\* the attempts have begun: the parameters are resolved
AttemptsBegun == pc \in {"loop", "gather", "returned"} \/ Len(dispatched) > 0

\* C40: from the first attempt to the last the quorum count is the one the
\* request gives, unchanged, or else perspective_count - 1 for an effective
\* perspective count up to 5 and perspective_count - 2 above; every attempt
\* is judged against it and against the same perspective count, and the
\* response reports both.
C40_EffectiveQuorum ==
    /\ AttemptsBegun =>
           /\ perspective_count = EffectivePerspectiveCount
           /\ quorum_count = EffectiveQuorumCount
    /\ \A k \in 1..Len(attempt_log) :
           /\ Len(attempt_log[k].cohort) = EffectivePerspectiveCount
           /\ attempt_log[k].is_valid_result =
                  is_valid_result(attempt_log[k].cohort,
                                  collect_validity_per_perspective(attempt_log[k].cohort, attempt_log[k].results),
                                  EffectiveQuorumCount.v)
    /\ ResponseReturned =>
           /\ response.actual_orchestration_parameters.perspective_count = EffectivePerspectiveCount
           /\ IntV(response.actual_orchestration_parameters.quorum_count) = EffectiveQuorumCount

\* six perspectives and no quorum in the request: a response with a quorum of
\* four, valid with four passing perspectives out of six
C40_Witness ==
    /\ ResponseReturned
    /\ IsNone(mpic_request.orchestration_parameters.quorum_count)
    /\ response.actual_orchestration_parameters.perspective_count = 6
    /\ response.actual_orchestration_parameters.quorum_count = 4
    /\ response.is_valid
    /\ Cardinality({ i \in 1..Len(tasks) : tasks[i].state = "returned" /\ tasks[i].response.check_passed }) = 4

\* the quorum the request gives, used with six perspectives
C40_WitnessRequested ==
    /\ ResponseReturned
    /\ mpic_request.orchestration_parameters.quorum_count = IntV(5)
    /\ response.actual_orchestration_parameters.perspective_count = 6
    /\ response.actual_orchestration_parameters.quorum_count = 5

\* a response after three attempts with the default quorum of one out of two
C40_WitnessAttempts ==
    /\ ResponseReturned
    /\ Len(attempt_log) = 3
    /\ IsNone(mpic_request.orchestration_parameters.quorum_count)
    /\ response.actual_orchestration_parameters.perspective_count = 2
    /\ response.actual_orchestration_parameters.quorum_count = 1
====
